---- MODULE Spec2Model ----
(***************************************************************************)
(* A model of the cgateweb bridge engine (C-Gate <-> MQTT).                *)
(*                                                                         *)
(* The module holds several specifications over one set of variables, one  *)
(* per subsystem; each leaves the other subsystems' variables unchanged:   *)
(*   SpecRamp   the MQTT command router's ramp handling and the device     *)
(*              state manager's level notifications (relative dimming);    *)
(*   SpecQueue  one ThrottledQueue with its pacing timer;                  *)
(*   SpecPool   the C-Gate command connection pool.                        *)
(***************************************************************************)
EXTENDS Integers, Sequences, FiniteSets, TLC

(***************************************************************************)
(* Program constants (constants.js, kept in commandResponseProcessor.js).  *)
(***************************************************************************)
CGATE_LEVEL_MIN == 0
CGATE_LEVEL_MAX == 255
RAMP_STEP == 26
\* setupRelativeLevelOperation's default timeout, the spec's "default 5 s"
RelativeLevelTimeoutMs == 5000
\* a CBusEvent without a level: this._level = null
NullLevel == -1

(***************************************************************************)
(* Bounds of the model.                                                    *)
(***************************************************************************)
MaxRequests == 2      \* MQTT ramp messages routed
ClockStepMs == 3000   \* granularity of the wall clock
MaxClockMs == 6000    \* the wall clock stops here
MaxIntervalMs == 2    \* the largest intervalMs a queue is constructed with
MaxAdds == 3          \* add() calls on the queue
MaxClears == 1        \* clear() calls on the queue
MaxConnObjects == 4   \* CgateConnection objects the pool creates
MaxFaults == 1        \* socket errors, closes and failed writes
MaxFaultsSingle == 1  \* the same for a pool of one connection
MaxRetryFaults == 4   \* the same for a pool of one connection whose rebuilds fail
MaxEventFaults == 11  \* failures of the event connection's socket
MaxReadyEntries == 2  \* entries into Ready
MaxBridgeFaults == 1  \* failures of the event connection and of MQTT under the bridge
MaxRouted == 1        \* MQTT messages routed to the command queue
MaxLines == 2         \* lines C-Gate writes to the command connections
MaxResponses == 2     \* lines of the command channel processed
MaxTreeLines == 5     \* 343/347/344 lines processed
MaxTreeRequests == 2  \* MQTT gettree messages routed

VARIABLES
    \* ---- relative dimming (SpecRamp) ----
    levelListeners,   \* once-listeners on internalEventEmitter's 'level', in order
    enqueued,         \* every command handed to cgateCommandQueue.add, in order
    requests,         \* history: the INCREASE/DECREASE requests routed so far
    lastEmitRamps,    \* history: RAMPs enqueued by the most recent level emit
    clock,            \* wall clock, ms
    \* ---- one ThrottledQueue (SpecQueue) ----
    intervalMs,       \* this._intervalMs, fixed by the constructor
    queue,            \* this._queue
    interval,         \* this._interval: TRUE when a setInterval timer is set, FALSE for null
    timerAge,         \* ms since the timer was set or last fired, counted up to intervalMs
    processed,        \* history: the items handed to processFn, in order
    sinceDispatch,    \* history: ms since processFn was last called, counted up to intervalMs
    minGap,           \* history: the shortest time between two successive processFn calls
    added,            \* history: the items passed to add(), in order
    dropped,          \* history: the items clear() removed from the queue
    nClears,          \* history: clear() calls
    errorsLogged,     \* history: processFn failures caught and logged
    lastAdd,          \* history: what the most recent add() call did
    \* ---- the command connection pool (SpecPool) ----
    isStarted,          \* this.isStarted
    isShuttingDown,     \* this.isShuttingDown
    conn,               \* the CgateConnection objects created so far, by id 1, 2, ...
    connections,        \* this.connections: slot -> connection id, 0 for an empty slot
    healthyConnections, \* this.healthyConnections, a Set: its members in insertion order
    connectionIndex,    \* this.connectionIndex
    reconnectionTimers, \* pending setTimeouts of _scheduleReconnection: the slots, in order
    healthCheckTimers,  \* connections with a pending setTimeout of _markConnectionUnhealthy
    faults,             \* history: socket failures injected so far
    window,             \* history: the connections of the latest successful execute()
                        \* calls, consecutive and with the healthy set unchanged
    lastExec,           \* history: what the execute() call of the latest step did
    poolSize,           \* this.poolSize
    faultBudget,        \* the socket failures a run may inject
    startPhase,         \* start(): "idle", "pending" at its await, "started" or "failed"
    healthCheckTimer,   \* this.healthCheckTimer: TRUE when set
    keepAliveTimer,     \* this.keepAliveTimer: TRUE when set
    stopping,           \* stop() is at its await
    startedEvent,       \* history: the 'started' event of the latest start()
    lossWatch,          \* history: 'allConnectionsUnhealthy' events since the healthy
                        \* set last became empty, until a connection is back
    stoppedEmitted,     \* history: 'stopped' was emitted and start() not called since
    afterStop,          \* history: what happened to connections after 'stopped'
    slotFailures,       \* history: slot -> failed connection attempts in a row
    overBudget,         \* history: a rebuild was scheduled for a slot out of budget
    lastRebuild,        \* history: the rebuild _scheduleReconnection() scheduled
                        \* last, with its delay
    \* ---- the bridge: connection manager, MQTT and event connection (SpecBridge) ----
    settings,               \* this.settings
    mqttClient,             \* MqttManager: this.client, this.connected, the library's client
    eventConn,              \* the event CgateConnection
    eventFaults,            \* history: failures of the event socket injected so far
    allConnected,           \* ConnectionManager.allConnected
    periodicGetAllInterval, \* this.periodicGetAllInterval: whether it holds a timer
                            \* (handle), and the setInterval timers of
                            \* _handleAllConnected() that are live
    haDiscovery,            \* this.haDiscovery: whether it is created, and the
                            \* HaDiscovery's treeBuffer and treeNetwork
    bridgePhase,            \* start()/stop(): "new", "starting", "running",
                            \* "startFailed", "stopping", "stopped"
    readyLog,               \* history: what each entry into Ready did
    \* ---- MQTT messages in and out (SpecRouter) ----
    command,                \* the CBusCommand routeMessage() built last
    cbusEvent,              \* history: the CBusEvent passed to publishEvent() last
    published,              \* history: what the latest publishEvent() call added to
                            \* mqttPublishQueue, in order
    discovery,              \* HaDiscovery: the discovery ids of this.settings; history:
                            \* the tree handed to _publishDiscoveryFromTree() last and
                            \* what that call passed to mqttManager.publish, in order
    cgateLines,             \* history: the lines C-Gate wrote to the command
                            \* connections, in order, each with its connection
    inflight,               \* per connection, the bytes C-Gate wrote that the socket
                            \* has not yet delivered in a 'data' event
    lineBuffer,             \* commandLineProcessor: the bytes readline holds after
                            \* the last line break
    commandLines,           \* history: the lines passed to
                            \* commandResponseProcessor.processLine, in order
    \* ---- C-Gate's responses on the command channel (SpecResponses) ----
    response,               \* history: what the latest processLine() call did
    treeLines,              \* history: the 343/347/344 lines dispatched, in order
    treeLog,                \* history: the handleTreeEnd() calls, in order: what
                            \* each found, handed on and left behind
    cgateTree               \* C-Gate: the TREEXML commands answered so far and the
                            \* lines written of the answer in progress

lineVars == <<cgateLines, inflight, lineBuffer, commandLines>>
responseVars == <<response, treeLines, treeLog, cgateTree>>
msgVars == <<command, cbusEvent, published, discovery, lineVars, responseVars>>
rampVars == <<levelListeners, enqueued, requests, lastEmitRamps, clock, msgVars>>
queueVars == <<intervalMs, queue, interval, timerAge, processed, sinceDispatch,
               minGap, added, dropped, nClears, errorsLogged, lastAdd>>
\* what execute() changes
execVars == <<connectionIndex, healthCheckTimers, faults, window, lastExec>>
poolHist == <<startedEvent, lossWatch, stoppedEmitted, afterStop, slotFailures, overBudget,
              lastRebuild>>
poolVars == <<isStarted, isShuttingDown, conn, connections, healthyConnections,
              reconnectionTimers, poolSize, faultBudget, startPhase, healthCheckTimer,
              keepAliveTimer, stopping, poolHist, execVars>>
\* what entering Ready changes besides the command queue and the pool
readyVars == <<allConnected, periodicGetAllInterval, haDiscovery, readyLog>>
bridgeVars == <<settings, mqttClient, eventConn, eventFaults, bridgePhase, readyVars>>
otherThanQueue == <<rampVars, poolVars, bridgeVars>>
vars == <<rampVars, queueVars, poolVars, bridgeVars>>

(***************************************************************************)
(* Addresses: network/application/group.  One lighting application and the *)
(* application configured as ha_discovery_pir_app_id.                      *)
(***************************************************************************)
LightingApp == "56"
PirApp == "202"
Addresses == { [net |-> "254", app |-> a, group |-> g] :
                 a \in {LightingApp, PirApp}, g \in {"4", "5"} }
RampAddresses == { a \in Addresses : a.app = LightingApp }
Levels == {128, 240}
Percents == {50, 150}

Min(a, b) == IF a < b THEN a ELSE b
Max(a, b) == IF a > b THEN a ELSE b

(***************************************************************************)
(* MqttCommandRouter                                                       *)
(***************************************************************************)
\* _queueCommand: cgateCommandQueue.add(command)
QueueCommand(q, cmd) == Append(q, cmd)

\* The commands, as records: "GET //<project>/<path> level", "RAMP //<project>/
\* <path> <level>", "ON //<project>/<path>".  req is history: the relative
\* request a command belongs to, 0 when it belongs to none.
GetCmd(a, r) == [verb |-> "GET", path |-> a, level |-> NullLevel, req |-> r]
RampCmd(a, l, r) == [verb |-> "RAMP", path |-> a, level |-> l, req |-> r]
SwitchCmd(v, a) == [verb |-> v, path |-> a, level |-> NullLevel, req |-> 0]

\* the MQTT messages routed so far: every command that no listener enqueued
Routed == Len(SelectSeq(enqueued, LAMBDA c : ~(c.verb = "RAMP" /\ c.req # 0)))

\* the listener body of _handleRelativeLevel:
\* Math.max(CGATE_LEVEL_MIN, Math.min(limit, currentLevel + step))
NewLevel(currentLevel, step, limit) ==
    Max(CGATE_LEVEL_MIN, Min(limit, currentLevel + step))

\* mutant of ScalePercent: the scaled level truncated
ScalePercentTruncated(p) == (Max(0, Min(100, p)) * CGATE_LEVEL_MAX) \div 100
\* CBusCommand._parseRampLevelAndTime: clamp to 0..100, scale, Math.round
ScalePercent(p) ==
    LET clamped == Max(0, Min(100, p))
    IN  (2 * clamped * CGATE_LEVEL_MAX + 100) \div 200

\* _handleRelativeLevel: register a once-listener, then enqueue the GET
HandleRelativeLevel(a, step) ==
    LET r == Len(requests) + 1 IN
    /\ levelListeners' = Append(levelListeners, [req |-> r, address |-> a, step |-> step])
    /\ enqueued' = QueueCommand(enqueued, GetCmd(a, r))
    /\ requests' = Append(requests,
                     [address |-> a, step |-> step, at |-> clock,
                      seen |-> <<>>, ramps |-> <<>>])
    /\ UNCHANGED <<lastEmitRamps, clock, queueVars, poolVars, bridgeVars>>

\* routeMessage -> _processCommand -> _handleRamp, topic cbus/write/n/a/g/ramp
RouteRamp(a, payload) ==
    /\ Routed < MaxRequests
    /\ UNCHANGED msgVars
    /\ CASE payload = "INCREASE" -> HandleRelativeLevel(a, RAMP_STEP)
         [] payload = "DECREASE" -> HandleRelativeLevel(a, 0 - RAMP_STEP)
         [] payload \in {"ON", "OFF"} ->
              /\ enqueued' = QueueCommand(enqueued, SwitchCmd(payload, a))
              /\ UNCHANGED <<levelListeners, requests, lastEmitRamps, clock, queueVars, poolVars, bridgeVars>>

\* _handleRamp's default branch: _handleAbsoluteLevel with a numeric payload
RouteRampAbsolute(a, p) ==
    /\ Routed < MaxRequests
    /\ enqueued' = QueueCommand(enqueued, RampCmd(a, ScalePercent(p), 0))
    /\ UNCHANGED <<levelListeners, requests, lastEmitRamps, clock, msgVars, queueVars, poolVars, bridgeVars>>

(***************************************************************************)
(* DeviceStateManager.updateLevelFromEvent and the 'level' emit.           *)
(***************************************************************************)
\* the level an event carries for the tracker, NullLevel when it carries none
EventLevel(action, level) ==
    IF level # NullLevel THEN level
    ELSE IF action = "on" THEN CGATE_LEVEL_MAX
    ELSE IF action = "off" THEN CGATE_LEVEL_MIN
    ELSE NullLevel

\* EventEmitter.once: the listeners left after one emit of the event.  Every
\* once-listener is removed before it is called, whatever address the
\* emit carries.
ListenersAfterEmit(ls) == <<>>

RECURSIVE RampsOfEmit(_, _, _)
\* the RAMP commands the listeners in ls (called in order) enqueue for an emit
RampsOfEmit(ls, a, lv) ==
    IF ls = <<>> THEN <<>>
    ELSE LET l == Head(ls)
             rest == RampsOfEmit(Tail(ls), a, lv)
         IN  IF l.address = a
             THEN <<RampCmd(a, NewLevel(lv, l.step, CGATE_LEVEL_MAX), l.req)>> \o rest
             ELSE rest

RECURSIVE QueueAll(_, _)
QueueAll(q, cmds) ==
    IF cmds = <<>> THEN q ELSE QueueAll(QueueCommand(q, Head(cmds)), Tail(cmds))

RECURSIVE RampLevelsFor(_, _)
RampLevelsFor(cmds, r) ==
    IF cmds = <<>> THEN <<>>
    ELSE (IF Head(cmds).req = r
          THEN <<[level |-> Head(cmds).level, at |-> clock]>> ELSE <<>>)
         \o RampLevelsFor(Tail(cmds), r)

\* history: note the delivery in every request's record
NoteDelivery(a, lv, cmds) ==
    [ r \in DOMAIN requests |->
        [ requests[r] EXCEPT
            !.seen = IF requests[r].address = a /\ @ = <<>> THEN <<lv>> ELSE @,
            !.ramps = @ \o RampLevelsFor(cmds, r) ] ]

\* updateLevelFromEvent(event), from an event line or a 300 status line
UpdateLevelFromEvent(a, action, level) ==
    IF a.app = PirApp \/ EventLevel(action, level) = NullLevel
    THEN UNCHANGED vars
    ELSE LET lv == EventLevel(action, level)
             cmds == RampsOfEmit(levelListeners, a, lv)
         IN  /\ levelListeners' = ListenersAfterEmit(levelListeners)
             /\ enqueued' = QueueAll(enqueued, cmds)
             /\ requests' = NoteDelivery(a, lv, cmds)
             /\ lastEmitRamps' = Len(cmds)
             /\ UNCHANGED <<clock, msgVars, queueVars, poolVars, bridgeVars>>

\* the passage of time
AdvanceClock ==
    /\ clock + ClockStepMs <= MaxClockMs
    /\ clock' = clock + ClockStepMs
    /\ UNCHANGED <<levelListeners, enqueued, requests, lastEmitRamps, msgVars, queueVars, poolVars, bridgeVars>>

(***************************************************************************)
(* ThrottledQueue.  Time is counted in ms since the last timer event and   *)
(* since the last processFn call, both only up to intervalMs: a timer      *)
(* fires when its interval has passed or later, never earlier, and after   *)
(* firing it is due again one interval later.                              *)
(***************************************************************************)
Producers == {"router", "refresh"}

\* mutant of Push: the item is not stored
PushLost(q, item) == q
\* this._queue.push(item)
Push(q, item) == Append(q, item)

\* mutant of TimerIdle: add() never starts the timer nor processes
TimerIdleNever(active) == FALSE
\* add(): if (this._interval === null) the timer is set and _process() is called
TimerIdle(active) == ~active

\* mutant of ShiftItem: pop() instead of shift()
ShiftItemLast(q) == q[Len(q)]
\* mutant of ShiftRest: the item taken stays in the queue
ShiftRestKeeps(q) == q
\* _process(): const item = this._queue.shift()
ShiftItem(q) == Head(q)
ShiftRest(q) == Tail(q)

\* mutant of ClearedQueue: clear() stops the timer and keeps the items
ClearedQueueKeeps(q) == q
\* clear(): this._queue = []
ClearedQueue(q) == <<>>

ItemIds(q) == { q[i].id : i \in DOMAIN q }

\* _process() on queue contents q with the timer in state active:
\* an empty queue stops the timer, otherwise the first item goes to
\* processFn, whose failure is caught and logged
Process(q, active, threw) ==
    IF Len(q) = 0
    THEN /\ queue' = q
         /\ interval' = FALSE
         /\ UNCHANGED <<processed, sinceDispatch, minGap, errorsLogged>>
    ELSE /\ queue' = ShiftRest(q)
         /\ interval' = active
         /\ processed' = Append(processed, ShiftItem(q))
         /\ minGap' = IF processed = <<>> THEN minGap ELSE Min(minGap, sinceDispatch)
         /\ sinceDispatch' = 0
         /\ errorsLogged' = errorsLogged + (IF threw THEN 1 ELSE 0)

\* add(item), as far as the queue goes
AddCore(by, threw) ==
    /\ Len(added) < MaxAdds
    /\ LET item == [id |-> Len(added) + 1, by |-> by, epoch |-> nClears]
           q == Push(queue, item)
       IN  /\ added' = Append(added, item)
           /\ IF TimerIdle(interval)
              THEN /\ timerAge' = 0
                   /\ Process(q, TRUE, threw)
              ELSE /\ queue' = q
                   /\ threw = FALSE
                   /\ UNCHANGED <<interval, timerAge, processed, sinceDispatch,
                                  minGap, errorsLogged>>
           /\ lastAdd' = [id |-> item.id,
                          idle |-> ~interval,
                          drained |-> ItemIds(processed) = ItemIds(added),
                          immediate |-> item.id \in ItemIds(processed')]
    /\ UNCHANGED <<intervalMs, dropped, nClears>>

\* add(item) with a consumer outside the model
Add(by, threw) == AddCore(by, threw) /\ UNCHANGED otherThanQueue

\* the setInterval callback: () => this._process(), as far as the queue goes
TimerTickCore(threw) ==
    /\ interval
    /\ timerAge >= intervalMs
    /\ threw => queue # <<>>
    /\ timerAge' = 0
    /\ Process(queue, TRUE, threw)
    /\ UNCHANGED <<intervalMs, added, dropped, nClears, lastAdd>>

\* the timer callback with a consumer outside the model
TimerTick(threw) == TimerTickCore(threw) /\ UNCHANGED otherThanQueue

\* clear(), as far as the queue goes
ClearCore ==
    /\ nClears < MaxClears
    /\ queue' = ClearedQueue(queue)
    /\ interval' = FALSE
    /\ dropped' = dropped \cup ItemIds(queue)
    /\ nClears' = nClears + 1
    /\ UNCHANGED <<intervalMs, timerAge, processed, sinceDispatch, minGap, added,
                   errorsLogged, lastAdd>>

\* clear()
Clear == ClearCore /\ UNCHANGED otherThanQueue

\* one ms passes
AdvanceTime ==
    /\ timerAge < intervalMs \/ sinceDispatch < intervalMs
    /\ timerAge' = Min(intervalMs, timerAge + 1)
    /\ sinceDispatch' = Min(intervalMs, sinceDispatch + 1)
    /\ UNCHANGED <<intervalMs, queue, interval, processed, minGap, added, dropped,
                   nClears, errorsLogged, lastAdd, otherThanQueue>>

(***************************************************************************)
(* CgateConnectionPool over CgateConnection objects.  A connection's       *)
(* socket is "none" (this.socket === null), "connecting" or "open".  A     *)
(* socket that fails, or that _handleError() destroys, emits 'close' in    *)
(* the same tick, before any other callback runs.                          *)
(***************************************************************************)
\* settings.reconnectinitialdelay || 1000, settings.reconnectmaxdelay || 60000
DefaultReconnectInitialDelay == 1000
DefaultReconnectMaxDelay == 60000

PoolSize == 3
MaxRetries == 3
MaxReconnectAttempts == 10
WindowLen == 2 * poolSize

Slots == 1..poolSize
ConnIds == 1..MaxConnObjects
PoolCommands == {"GET //P/254/56/4 level"}

\* no execute() call in the latest step
NoExec == [cmd |-> "", selected |-> 0, sendOk |-> FALSE, threw |-> FALSE, writtenTo |-> {}]

\* a setting that is not set, and one that is a string of characters
NoValue == [string |-> FALSE, chars |-> <<>>]
Str(chars) == [string |-> TRUE, chars |-> chars]

\* String.prototype.trim() for strings of letters and blanks
RECURSIVE TrimStart(_)
TrimStart(chars) ==
    IF chars # <<>> /\ Head(chars) = " " THEN TrimStart(Tail(chars)) ELSE chars
RECURSIVE TrimEnd(_)
TrimEnd(chars) ==
    IF chars # <<>> /\ chars[Len(chars)] = " "
    THEN TrimEnd(SubSeq(chars, 1, Len(chars) - 1))
    ELSE chars
Trim(chars) == TrimEnd(TrimStart(chars))

\* mutant of LoginConfigured: a user name alone is enough
LoginConfiguredByUser(s) == s.cgateusername.string /\ s.cgateusername.chars # <<>>
\* _sendInitialCommands(): user && typeof user === 'string' &&
\* user.trim() !== '' && typeof pass === 'string'
LoginConfigured(s) ==
    /\ s.cgateusername.string /\ s.cgateusername.chars # <<>>
    /\ Trim(s.cgateusername.chars) # <<>>
    /\ s.cgatepassword.string

\* what _handleConnect() writes to the socket of a connection of the given
\* type: _sendInitialCommands() for type 'command', nothing for 'event'
InitialCommands(type, s) ==
    IF type # "command" THEN <<>>
    ELSE <<[cmd |-> "EVENT ON", user |-> <<>>, pass |-> <<>>]>> \o
         (IF LoginConfigured(s)
          THEN <<[cmd |-> "LOGIN", user |-> Trim(s.cgateusername.chars),
                  pass |-> s.cgatepassword.chars]>>
          ELSE <<>>)

\* new CgateConnection(...) in _createConnection(index), then connect();
\* settled is the state of _createConnection's promise while start() waits
\* for it and "done" otherwise; rebuilt says that the object was created
\* by the timer of _scheduleReconnection(); lastEvent says whether the latest of the
\* connection's 'connect', 'close' and 'error' events and failed health
\* checks was 'connect' ("connect") or another one ("lost"), and written
\* what _handleConnect() wrote to the connection's present socket (history)
NewConnection(index, byStart) ==
    [poolIndex |-> index, socket |-> "connecting", connected |-> FALSE,
     isDestroyed |-> FALSE, reconnectAttempts |-> 0, reconnectTimeout |-> FALSE,
     retryCount |-> 0, settled |-> IF byStart THEN "pending" ELSE "done",
     rebuilt |-> ~byStart, lastEvent |-> "none", written |-> <<>>]

\* mutant of SetDelete: the connection stays in the healthy set
SetDeleteNot(h, c) == h
\* Set.prototype.add and Set.prototype.delete, keeping insertion order
SetAdd(h, c) == IF \E i \in DOMAIN h : h[i] = c THEN h ELSE Append(h, c)
SetDelete(h, c) == SelectSeq(h, LAMBDA x : x # c)
Members(h) == { h[i] : i \in DOMAIN h }

\* _getHealthyConnection(): healthyArray[this.connectionIndex % healthyArray.length]
SelectConnection(h, idx) == h[(idx % Len(h)) + 1]
\* mutant of NextConnectionIndex: the index wraps at the pool size
NextConnectionIndexByPoolSize(idx, len) == (idx + 1) % PoolSize
\* _getHealthyConnection(): this.connectionIndex = (this.connectionIndex + 1) % healthyArray.length
NextConnectionIndex(idx, len) == (idx + 1) % len

\* CgateConnection.send() reaches socket.write()
Writable(c) == conn[c].socket = "open" /\ conn[c].connected

\* mutant of MarkConnectionUnhealthy: no health check is scheduled
MarkConnectionUnhealthyNot(timers, c) == timers
\* _markConnectionUnhealthy(connection): setTimeout(() => _checkConnectionHealth(connection), 1000)
MarkConnectionUnhealthy(timers, c) == timers \cup {c}

\* the latest successful execute() calls, at most WindowLen of them
Slide(w, c) ==
    LET w2 == Append(w, c)
    IN  IF Len(w2) > WindowLen THEN Tail(w2) ELSE w2

\* the history of successful calls starts again when the healthy set changes
WindowAfter(h2) == IF Members(h2) = Members(healthyConnections) THEN window ELSE <<>>

\* _scheduleReconnection(connection, index) for a pool that is not shutting down
RetryCountAfterClose(r) == IF isShuttingDown THEN r.retryCount ELSE r.retryCount + 1
ReconnectionScheduled(r) == ~isShuttingDown /\ r.retryCount + 1 <= MaxRetries

\* _scheduleReconnection(): Math.min(1000 * Math.pow(2, retryCount - 1), 30000)
PoolReconnectionBaseMs == 1000
PoolReconnectionMaxMs == 30000
PoolReconnectionDelay(retryCount) ==
    Min(PoolReconnectionBaseMs * 2 ^ (retryCount - 1), PoolReconnectionMaxMs)

\* stop(): setTimeout(() => resolve(), 1000)
StopWaitMs == 1000

\* a reconnection timer is "short" when it fires before a stop() called
\* after it was set can complete, and "long" otherwise
TimerClass(r) ==
    IF PoolReconnectionDelay(RetryCountAfterClose(r)) <= StopWaitMs THEN "short" ELSE "long"
NoTimers == [short |-> 0, long |-> 0]

\* the pending reconnect of connection record r, scheduled by
\* _scheduleReconnect() with the default delays, is due before a stop()
\* called after it was set can complete
ShortReconnect(r) ==
    Min(DefaultReconnectInitialDelay * 2 ^ (r.reconnectAttempts - 1),
        DefaultReconnectMaxDelay) <= StopWaitMs

\* mutant of ReconnectScheduled: the number of attempts is not limited
ReconnectScheduledAlways(r) == ~r.reconnectTimeout
\* CgateConnection._scheduleReconnect()
ReconnectScheduled(r) ==
    ~r.reconnectTimeout /\ r.reconnectAttempts < MaxReconnectAttempts

\* history: no rebuild scheduled yet; nth counts the rebuilds of the slot
\* since a connection of the slot last connected (a pool of one connection)
NoRebuild == [nth |-> 0, delay |-> 0]

\* the connections in this.connections
SlotConnections == { connections[i] : i \in Slots } \ {0}

\* history: what happens to connections once 'stopped' has been emitted
NoteAfterStop(tags) == afterStop' = IF stoppedEmitted THEN afterStop \cup tags ELSE afterStop

\* history of a pool of one connection: a 'close' or 'error' empties the
\* healthy set ("lost"), a 'connect' fills it again ("back"), and emits
\* counts the 'allConnectionsUnhealthy' events in between, up to 2; added is
\* the number of commands the command queue had been given when the set
\* emptied
NoLoss == [phase |-> "none", emits |-> 0, added |-> 0]
LossWatchAfter(h, h2) ==
    IF poolSize # 1 THEN lossWatch
    ELSE IF h # <<>> /\ h2 = <<>>
    THEN [phase |-> "lost", emits |-> 0, added |-> Len(added)]
    ELSE IF h = <<>> /\ h2 # <<>> /\ lossWatch.phase = "lost"
         THEN [lossWatch EXCEPT !.phase = "back"]
         ELSE lossWatch

\* execute(command), as far as the pool goes; writeThrows: socket.write()
\* throws inside send()
ExecuteCore(cmd, writeThrows) ==
    IF ~isStarted \/ isShuttingDown \/ Len(healthyConnections) = 0
    THEN /\ writeThrows = FALSE
         /\ lastExec' = [cmd |-> cmd, selected |-> 0, sendOk |-> FALSE,
                         threw |-> TRUE, writtenTo |-> {}]
         /\ window' = <<>>
         /\ UNCHANGED <<connectionIndex, healthCheckTimers, faults>>
    ELSE LET c == SelectConnection(healthyConnections, connectionIndex)
             success == Writable(c) /\ ~writeThrows
         IN  /\ writeThrows => (Writable(c) /\ faults < faultBudget)
             /\ connectionIndex' =
                   NextConnectionIndex(connectionIndex, Len(healthyConnections))
             /\ faults' = faults + (IF writeThrows THEN 1 ELSE 0)
             /\ healthCheckTimers' =
                   IF success THEN healthCheckTimers
                   ELSE MarkConnectionUnhealthy(healthCheckTimers, c)
             /\ window' = IF success THEN Slide(window, c) ELSE <<>>
             /\ lastExec' = [cmd |-> cmd, selected |-> c, sendOk |-> success,
                             threw |-> ~success,
                             writtenTo |-> IF success THEN {c} ELSE {}]

\* a step without an execute() call
NoExecute ==
    /\ lastExec' = NoExec
    /\ UNCHANGED <<connectionIndex, healthCheckTimers, faults, window>>

(***************************************************************************)
(* CgateWebBridge and ConnectionManager: what the handlers of the three    *)
(* sources' events do.                                                     *)
(***************************************************************************)
NoNetApp == [net |-> "", app |-> ""]
\* the settings of the runs modelled: ha_discovery_enabled,
\* ha_discovery_networks, getallnetapp, getallonstart, getallperiod (s)
BridgeSettings ==
    { [haDiscoveryEnabled |-> TRUE, haDiscoveryNetworks |-> <<"254">>,
       getallnetapp |-> [net |-> "254", app |-> "56"], getallonstart |-> TRUE,
       getallperiod |-> 3600, cgateusername |-> NoValue, cgatepassword |-> NoValue],
      [haDiscoveryEnabled |-> TRUE, haDiscoveryNetworks |-> <<>>,
       getallnetapp |-> [net |-> "254", app |-> "56"], getallonstart |-> FALSE,
       getallperiod |-> 0, cgateusername |-> NoValue, cgatepassword |-> NoValue],
      [haDiscoveryEnabled |-> FALSE, haDiscoveryNetworks |-> <<>>,
       getallnetapp |-> NoNetApp, getallonstart |-> FALSE, getallperiod |-> 0,
       cgateusername |-> NoValue, cgatepassword |-> NoValue] }
\* the settings of a run that is about something else
PlainSettings ==
    [haDiscoveryEnabled |-> FALSE, haDiscoveryNetworks |-> <<>>,
     getallnetapp |-> NoNetApp, getallonstart |-> FALSE, getallperiod |-> 0,
     cgateusername |-> NoValue, cgatepassword |-> NoValue]

\* the values of cgateusername and cgatepassword modelled
UserNames == { NoValue, Str(<<>>), Str(<<" ">>), Str(<<"u">>), Str(<<" ", "u", " ">>) }
Passwords == { NoValue, Str(<<>>), Str(<<"p">>) }

\* _sendCgateCommand(command): execute() with its failure caught and logged
SendCgateCommand(cmd) == \E writeThrows \in BOOLEAN : ExecuteCore(cmd, writeThrows)

\* cgateCommandQueue.add(command): the queue's consumer is _sendCgateCommand
CommandQueueAdd(cmd) ==
    /\ AddCore(cmd, FALSE)
    /\ IF TimerIdle(interval) THEN SendCgateCommand(cmd) ELSE NoExecute

\* HaDiscovery.trigger(): the networks it asks the tree of
NetworksToDiscover(s) ==
    IF Len(s.haDiscoveryNetworks) > 0 THEN s.haDiscoveryNetworks
    ELSE IF s.getallnetapp.net # "" THEN <<s.getallnetapp.net>>
    ELSE <<>>

\* new HaDiscovery(this.settings, (command) => ...): the constructor's third
\* parameter, cgateConnection, is given no argument
HaDiscoveryCgateConnection == "undefined"

\* HaDiscovery.trigger(): the TREEXML commands sent and whether it threw;
\* this.cgateConnection.send(...) on undefined is a TypeError
Trigger(s) ==
    IF ~s.haDiscoveryEnabled \/ NetworksToDiscover(s) = <<>>
    THEN [treexml |-> <<>>, threw |-> FALSE]
    ELSE IF HaDiscoveryCgateConnection = "undefined"
         THEN [treexml |-> <<>>, threw |-> TRUE]
         ELSE [treexml |-> NetworksToDiscover(s), threw |-> FALSE]

\* this.haDiscovery = null; new HaDiscovery(...): treeBuffer '', treeNetwork null
NullNetwork == "null"
NoDiscovery == [created |-> FALSE, treeBuffer |-> <<>>, treeNetwork |-> NullNetwork]
NewDiscovery == [created |-> TRUE, treeBuffer |-> <<>>, treeNetwork |-> NullNetwork]

\* HaDiscovery.trigger() on h: this.treeNetwork = networkId before each send,
\* up to the send that throws
TriggerTreeNetwork(h, s) ==
    IF ~s.haDiscoveryEnabled \/ NetworksToDiscover(s) = <<>> THEN h
    ELSE IF Trigger(s).threw
    THEN [h EXCEPT !.treeNetwork = Head(NetworksToDiscover(s))]
    ELSE [h EXCEPT !.treeNetwork = NetworksToDiscover(s)[Len(NetworksToDiscover(s))]]

\* this.periodicGetAllInterval = null, and no timer set
NoInterval == [handle |-> FALSE, timers |-> 0]
\* mutant of ClearPeriodic: the previous timer is left running
ClearPeriodicSkipped(p) == p
\* if (this.periodicGetAllInterval) clearInterval(this.periodicGetAllInterval)
ClearPeriodic(p) == IF p.handle THEN [p EXCEPT !.timers = @ - 1] ELSE p
\* this.periodicGetAllInterval = setInterval(...)
SetPeriodic(p) == [handle |-> TRUE, timers |-> p.timers + 1]

GetAllOnStart(s) == s.getallnetapp.net # "" /\ s.getallonstart
GetAllPeriodic(s) == s.getallnetapp.net # "" /\ s.getallperiod > 0

\* _handleAllConnected(): the entry actions of Ready
HandleAllConnected ==
    /\ Len(readyLog) < MaxReadyEntries
    /\ IF GetAllOnStart(settings)
       THEN CommandQueueAdd("getall")
       ELSE NoExecute /\ UNCHANGED queueVars
    /\ periodicGetAllInterval' =
          IF GetAllPeriodic(settings)
          THEN SetPeriodic(ClearPeriodic(periodicGetAllInterval))
          ELSE periodicGetAllInterval
    /\ haDiscovery' = TriggerTreeNetwork(IF haDiscovery.created THEN haDiscovery
                                         ELSE NewDiscovery, settings)
    /\ readyLog' = Append(readyLog,
                          [getAll |-> GetAllOnStart(settings),
                           periodic |-> GetAllPeriodic(settings),
                           treexml |-> Trigger(settings).treexml,
                           threw |-> Trigger(settings).threw])

\* ConnectionManager._checkAllConnected(), given what it reads of the three
\* sources, with the 'allConnected' listener
CheckAllConnected(mqttOk, poolOk, eventOk) ==
    IF mqttOk /\ poolOk /\ eventOk /\ ~allConnected
    THEN allConnected' = TRUE /\ HandleAllConnected
    ELSE NoExecute /\ UNCHANGED <<readyVars, queueVars>>

\* this.commandConnectionPool.isStarted && healthyConnections.size > 0
PoolHealthy(started, h) == started /\ Len(h) > 0

(***************************************************************************)
(* The pool's operations and the callbacks of its sockets and timers.      *)
(***************************************************************************)
outsidePool == <<rampVars, queueVars, bridgeVars>>
poolConfig == <<poolSize, faultBudget>>
poolTimers == <<healthCheckTimer, keepAliveTimer>>
poolState == <<isStarted, isShuttingDown, conn, connections, healthyConnections,
               reconnectionTimers, poolConfig, startPhase, poolTimers, stopping, poolHist>>

\* CgateConnection.disconnect()
Disconnected(r) ==
    [r EXCEPT !.reconnectTimeout = FALSE,
              !.socket = "none",
              !.connected = FALSE,
              !.reconnectAttempts = 0,
              !.isDestroyed = TRUE,
              !.written = <<>>]

\* start() succeeds: successfulConnections === 0 is false
StartSucceedsAlways(successful) == TRUE
StartSucceeds(successful) == successful # 0

\* start() up to its await: the pool is marked started and one connection
\* per slot is created and connects
PoolStart ==
    /\ ~isStarted
    /\ startPhase # "pending"
    /\ Len(conn) + poolSize <= MaxConnObjects
    /\ isStarted' = TRUE
    /\ isShuttingDown' = FALSE
    /\ startPhase' = "pending"
    /\ conn' = conn \o [i \in Slots |-> NewConnection(i, TRUE)]
    /\ connections' = [i \in Slots |-> Len(conn) + i]
    /\ startedEvent' = [emitted |-> FALSE, healthy |-> 0, total |-> 0]
    /\ stoppedEmitted' = FALSE
    /\ afterStop' = {}
    /\ UNCHANGED <<healthyConnections, reconnectionTimers, poolConfig, poolTimers,
                   stopping, lossWatch, slotFailures, overBudget, lastRebuild>>

\* start() called on the pool alone
Start == PoolStart /\ NoExecute /\ UNCHANGED outsidePool

\* the setTimeout callback of _createConnection(): the promise start() waits
\* for is rejected after connectionTimeout
ConnectionTimeout(c) ==
    /\ c \in DOMAIN conn
    /\ conn[c].settled = "pending"
    /\ conn' = [conn EXCEPT ![c].settled = "rejected"]
    /\ NoExecute
    /\ UNCHANGED <<isStarted, isShuttingDown, connections, healthyConnections,
                   reconnectionTimers, poolConfig, startPhase, poolTimers, stopping,
                   poolHist, outsidePool>>

\* the connections start() waits for
Awaited == { c \in DOMAIN conn : conn[c].settled # "done" }
SuccessfulConnections == Cardinality({ c \in Awaited : conn[c].settled = "fulfilled" })

\* Promise.allSettled has resolved: start() goes on before stop() can be
\* called
StartReady == startPhase = "pending" /\ \A c \in Awaited : conn[c].settled # "pending"

\* ConnectionManager.start() after its await of pool.start():
\* this.eventConnection.connect()
EventConnect(r) == [r EXCEPT !.socket = "connecting"]

\* start() after Promise.allSettled: it throws, or starts the timers and
\* emits 'started', which the manager answers with _checkAllConnected();
\* then ConnectionManager.start() and CgateWebBridge.start() go on
StartSettled ==
    /\ StartReady
    /\ IF StartSucceeds(SuccessfulConnections)
       THEN /\ startPhase' = "started"
            /\ healthCheckTimer' = TRUE
            /\ keepAliveTimer' = TRUE
            /\ startedEvent' = [emitted |-> TRUE, healthy |-> SuccessfulConnections,
                                total |-> poolSize]
            /\ CheckAllConnected(mqttClient.connected,
                                 PoolHealthy(isStarted, healthyConnections),
                                 eventConn.connected)
            /\ IF bridgePhase = "starting"
               THEN eventConn' = EventConnect(eventConn) /\ bridgePhase' = "running"
               ELSE UNCHANGED <<eventConn, bridgePhase>>
       ELSE /\ startPhase' = "failed"
            /\ bridgePhase' = IF bridgePhase = "starting" THEN "startFailed" ELSE bridgePhase
            /\ NoExecute
            /\ UNCHANGED <<poolTimers, startedEvent, eventConn, readyVars, queueVars>>
    /\ conn' = [c \in DOMAIN conn |-> [conn[c] EXCEPT !.settled = "done"]]
    /\ UNCHANGED <<isStarted, isShuttingDown, connections, healthyConnections,
                   reconnectionTimers, poolConfig, stopping, lossWatch, stoppedEmitted,
                   afterStop, slotFailures, overBudget,
                   lastRebuild, rampVars, settings, mqttClient,
                   eventFaults>>

\* _handleClose() on connection record r with the pool's 'close' handler
\* (_scheduleReconnection()) and _scheduleReconnect()
Closed(r) ==
    [r EXCEPT !.connected = FALSE,
              !.socket = "none",
              !.retryCount = RetryCountAfterClose(r),
              !.reconnectAttempts = IF ReconnectScheduled(r) THEN @ + 1 ELSE @,
              !.reconnectTimeout = @ \/ ReconnectScheduled(r),
              !.lastEvent = "lost",
              !.written = <<>>]

\* the 'close' event of connection c, whose record is r by then:
\* _handleClose(), the pool's 'close' handler with _scheduleReconnection(),
\* then _scheduleReconnect(); failures is the slot's count by then
CloseEffects(c, r, failures) ==
    /\ conn' = [conn EXCEPT ![c] = Closed(r)]
    /\ reconnectionTimers' =
          IF ReconnectionScheduled(r)
          THEN [reconnectionTimers EXCEPT ![r.poolIndex][TimerClass(r)] = @ + 1]
          ELSE reconnectionTimers
    /\ overBudget' = (overBudget \/ (/\ poolSize = 1
                                     /\ ReconnectionScheduled(r)
                                     /\ failures[r.poolIndex] >= MaxRetries))
    /\ lastRebuild' = IF poolSize = 1 /\ ReconnectionScheduled(r)
                      THEN [nth |-> failures[r.poolIndex] + 1,
                            delay |-> PoolReconnectionDelay(RetryCountAfterClose(r))]
                      ELSE lastRebuild
    /\ LET h2 == SetDelete(healthyConnections, c)
       IN  /\ healthyConnections' = h2
           /\ window' = WindowAfter(h2)
           /\ lossWatch' = LossWatchAfter(healthyConnections, h2)

\* the socket's 'connect' event: _handleConnect() with _sendInitialCommands()
\* and the pool's 'connect' handler.  A failing write of the initial
\* commands goes to _handleError(), which destroys the socket: the pool's
\* 'error' handler runs, then its 'connect' handler, and the socket's
\* 'close' event follows before any other callback.
SocketConnect(c, initThrows) ==
    /\ c \in DOMAIN conn
    /\ conn[c].socket = "connecting"
    /\ initThrows => faults < faultBudget
    /\ faults' = faults + (IF initThrows THEN 1 ELSE 0)
    /\ LET r == [conn[c] EXCEPT !.reconnectAttempts = 0,
                                !.reconnectTimeout = FALSE,
                                !.settled = IF @ = "pending" THEN "fulfilled" ELSE @]
       IN  IF initThrows
           THEN /\ CloseEffects(c, r, slotFailures)
                /\ UNCHANGED slotFailures
           ELSE /\ conn' = [conn EXCEPT ![c] =
                             [r EXCEPT !.connected = TRUE,
                                       !.socket = "open",
                                       !.lastEvent = "connect",
                                       !.written = InitialCommands("command", settings)]]
                /\ LET h2 == SetAdd(healthyConnections, c)
                   IN  /\ healthyConnections' = h2
                       /\ window' = WindowAfter(h2)
                       /\ lossWatch' = LossWatchAfter(healthyConnections, h2)
                /\ slotFailures' = IF poolSize # 1 THEN slotFailures
                                   ELSE [slotFailures EXCEPT ![conn[c].poolIndex] = 0]
                /\ UNCHANGED <<reconnectionTimers, overBudget, lastRebuild>>
    /\ NoteAfterStop(IF initThrows THEN {"connected"} ELSE {"connected", "written"})
    /\ lastExec' = NoExec
    /\ UNCHANGED <<isStarted, isShuttingDown, connections, connectionIndex,
                   healthCheckTimers, poolConfig, startPhase, poolTimers, stopping,
                   startedEvent, stoppedEmitted, outsidePool>>

\* the slot's failed reconnection attempts in a row after connection c,
\* still connecting, failed; the first attempt of a connection start()
\* created is no reconnection
FailuresAfterError(c) ==
    IF /\ conn[c].socket = "connecting"
       /\ conn[c].rebuilt \/ conn[c].lastEvent # "none"
       /\ poolSize = 1
    THEN [slotFailures EXCEPT ![conn[c].poolIndex] = Min(@ + 1, MaxRetries + 1)]
    ELSE slotFailures

\* the socket's 'error' event and the 'close' event that follows it in the
\* same tick: _handleError() and the pool's 'error' handler, then
\* _handleClose() and the pool's 'close' handler
SocketError(c) ==
    /\ c \in DOMAIN conn
    /\ conn[c].socket \in {"connecting", "open"}
    /\ faults < faultBudget
    /\ faults' = faults + 1
    /\ slotFailures' = FailuresAfterError(c)
    /\ CloseEffects(c, conn[c], FailuresAfterError(c))
    /\ lastExec' = NoExec
    /\ UNCHANGED <<isStarted, isShuttingDown, connections, connectionIndex,
                   healthCheckTimers, poolConfig, startPhase, poolTimers, stopping,
                   startedEvent, stoppedEmitted, afterStop, outsidePool>>

\* the 'close' event of an open socket the peer closed: _handleClose() and
\* the pool's 'close' handler
SocketClose(c) ==
    /\ c \in DOMAIN conn
    /\ conn[c].socket = "open"
    /\ faults < faultBudget
    /\ faults' = faults + 1
    /\ CloseEffects(c, conn[c], slotFailures)
    /\ lastExec' = NoExec
    /\ UNCHANGED <<isStarted, isShuttingDown, connections, connectionIndex,
                   healthCheckTimers, poolConfig, startPhase, poolTimers, stopping,
                   startedEvent, stoppedEmitted, afterStop, slotFailures, outsidePool>>

\* the setTimeout callback of CgateConnection._scheduleReconnect(): connect()
ConnectionReconnectTimer(c) ==
    /\ c \in DOMAIN conn
    /\ conn[c].reconnectTimeout
    /\ conn' = [conn EXCEPT ![c].reconnectTimeout = FALSE, ![c].socket = "connecting"]
    /\ NoteAfterStop({"reconnecting"})
    /\ NoExecute
    /\ UNCHANGED <<isStarted, isShuttingDown, connections, healthyConnections,
                   reconnectionTimers, poolConfig, startPhase, poolTimers, stopping,
                   startedEvent, lossWatch, stoppedEmitted, slotFailures, overBudget,
                   lastRebuild,
                   outsidePool>>

\* the setTimeout callback of _scheduleReconnection(): _createConnection(index)
\* puts a new connection object in the slot
PoolReconnectionTimer(i, class) ==
    /\ i \in Slots
    /\ reconnectionTimers[i][class] > 0
    /\ isShuttingDown \/ Len(conn) < MaxConnObjects
    /\ reconnectionTimers' = [reconnectionTimers EXCEPT ![i][class] = @ - 1]
    /\ IF isShuttingDown
       THEN UNCHANGED <<conn, connections, afterStop>>
       ELSE /\ conn' = Append(conn, NewConnection(i, FALSE))
            /\ connections' = [connections EXCEPT ![i] = Len(conn) + 1]
            /\ NoteAfterStop({"created"})
    /\ NoExecute
    /\ UNCHANGED <<isStarted, isShuttingDown, healthyConnections, poolConfig,
                   startPhase, poolTimers, stopping, startedEvent, lossWatch,
                   stoppedEmitted, slotFailures, overBudget, lastRebuild, outsidePool>>

\* execute(command) called on the pool alone
Execute(cmd, writeThrows) ==
    /\ ExecuteCore(cmd, writeThrows)
    /\ UNCHANGED <<isStarted, isShuttingDown, conn, connections, healthyConnections,
                   reconnectionTimers, poolConfig, startPhase, poolTimers, stopping,
                   poolHist, outsidePool>>

\* the setTimeout callback of _markConnectionUnhealthy():
\* _checkConnectionHealth(connection); its ping of an inactive connection
\* changes nothing the pool selects by.  Checks pending for the same
\* connection are taken together.
HealthCheckTimer(c) ==
    /\ c \in DOMAIN conn
    /\ c \in healthCheckTimers
    /\ healthCheckTimers' = healthCheckTimers \ {c}
    /\ LET failed == conn[c].isDestroyed \/ ~conn[c].connected
           h2 == IF failed THEN SetDelete(healthyConnections, c) ELSE healthyConnections
       IN  /\ healthyConnections' = h2
           /\ window' = WindowAfter(h2)
           /\ conn' = IF failed THEN [conn EXCEPT ![c].lastEvent = "lost"] ELSE conn
    /\ lastExec' = NoExec
    /\ UNCHANGED <<isStarted, isShuttingDown, connections, connectionIndex,
                   reconnectionTimers, faults, poolConfig, startPhase, poolTimers,
                   stopping, poolHist, outsidePool>>

\* _checkConnectionHealth(connection) fails
CheckFails(c) == conn[c].isDestroyed \/ ~conn[c].connected

\* the healthy set after _performHealthCheck() went over this.connections
HealthyAfterCheck(h) ==
    SelectSeq(h, LAMBDA c : ~(c \in SlotConnections /\ CheckFails(c)))

\* the setInterval callback of _startHealthMonitoring():
\* _performHealthCheck(), whose 'allConnectionsUnhealthy' the manager
\* answers by leaving Ready
HealthCheckTick ==
    /\ healthCheckTimer
    /\ IF isShuttingDown
       THEN UNCHANGED <<conn, healthyConnections, window, lossWatch, allConnected>>
       ELSE LET h2 == HealthyAfterCheck(healthyConnections)
            IN  /\ healthyConnections' = h2
                /\ window' = WindowAfter(h2)
                /\ conn' = [c \in DOMAIN conn |->
                              IF c \in SlotConnections /\ CheckFails(c)
                              THEN [conn[c] EXCEPT !.lastEvent = "lost"]
                              ELSE conn[c]]
                /\ lossWatch' =
                      IF h2 = <<>> /\ lossWatch.phase = "lost"
                      THEN [lossWatch EXCEPT !.emits = Min(@ + 1, 2)]
                      ELSE lossWatch
                /\ allConnected' = IF h2 = <<>> THEN FALSE ELSE allConnected
    /\ lastExec' = NoExec
    /\ UNCHANGED <<isStarted, isShuttingDown, connections, connectionIndex,
                   reconnectionTimers, healthCheckTimers, faults, poolConfig,
                   startPhase, poolTimers, stopping, startedEvent, stoppedEmitted,
                   afterStop, slotFailures, overBudget,
                   lastRebuild, rampVars, queueVars, settings,
                   mqttClient, eventConn, eventFaults, bridgePhase,
                   periodicGetAllInterval, haDiscovery, readyLog>>

\* the setInterval callback of _startKeepAlive(): _sendKeepAlive() writes a
\* ping to every healthy connection and removes none
KeepAliveTick ==
    /\ keepAliveTimer
    /\ NoteAfterStop(IF \E c \in Members(healthyConnections) : Writable(c)
                     THEN {"written"} ELSE {})
    /\ NoExecute
    /\ UNCHANGED <<isStarted, isShuttingDown, conn, connections, healthyConnections,
                   reconnectionTimers, poolConfig, startPhase, poolTimers, stopping,
                   startedEvent, lossWatch, stoppedEmitted, slotFailures, overBudget,
                   lastRebuild,
                   outsidePool>>

\* stop() up to its await: the timers are cleared and every connection of
\* this.connections that is not destroyed is disconnected
PoolStop ==
    /\ isStarted
    /\ ~isShuttingDown
    /\ ~StartReady
    /\ isShuttingDown' = TRUE
    /\ healthCheckTimer' = FALSE
    /\ keepAliveTimer' = FALSE
    /\ conn' = [c \in DOMAIN conn |->
                  IF c \in SlotConnections /\ ~conn[c].isDestroyed
                  THEN Disconnected(conn[c])
                  ELSE conn[c]]
    /\ stopping' = TRUE
    /\ UNCHANGED <<isStarted, connections, healthyConnections, reconnectionTimers,
                   poolConfig, startPhase, poolHist>>

\* stop() called on the pool alone
Stop == PoolStop /\ NoExecute /\ UNCHANGED outsidePool

\* stop() after its await, 1000 ms later: the pool is emptied and 'stopped'
\* is emitted; the short reconnection timers have fired in the meantime
\* and returned at once, and the connections that stop() did not reach
\* have begun the reconnects that were due
PoolStopComplete ==
    /\ stopping
    /\ reconnectionTimers' = [i \in Slots |-> [reconnectionTimers[i] EXCEPT !.short = 0]]
    /\ stopping' = FALSE
    /\ connections' = [i \in Slots |-> 0]
    /\ healthyConnections' = <<>>
    /\ isStarted' = FALSE
    /\ isShuttingDown' = FALSE
    /\ stoppedEmitted' = TRUE
    /\ afterStop' = {}
    /\ lossWatch' = NoLoss
    /\ window' = <<>>
    /\ lastExec' = NoExec
    /\ conn' = [c \in DOMAIN conn |->
                  IF conn[c].reconnectTimeout /\ ShortReconnect(conn[c])
                  THEN [conn[c] EXCEPT !.reconnectTimeout = FALSE, !.socket = "connecting"]
                  ELSE conn[c]]
    /\ UNCHANGED <<poolConfig, startPhase, poolTimers, startedEvent, slotFailures,
                   overBudget, lastRebuild, connectionIndex, healthCheckTimers, faults>>

\* stop() called on the pool alone, after its await
StopComplete ==
    /\ PoolStopComplete
    /\ IF bridgePhase = "stopping"
       THEN \* ConnectionManager.stop() after its await:
            \* this.eventConnection.disconnect(); this.allConnected = false
            /\ eventConn' = [Disconnected(eventConn) EXCEPT !.nth = 0, !.disconnected = TRUE]
            /\ allConnected' = FALSE
            /\ bridgePhase' = "stopped"
       ELSE UNCHANGED <<eventConn, allConnected, bridgePhase>>
    /\ UNCHANGED <<rampVars, queueVars, settings, mqttClient, eventFaults,
                   periodicGetAllInterval, haDiscovery, readyLog>>

(***************************************************************************)
(* The event connection, a CgateConnection of type 'event'.  A socket      *)
(* that fails emits 'error' and then 'close'; _handleError() drops the     *)
(* socket without removing its listeners, so its 'close' is still          *)
(* delivered (closePending), and a listener of the connection's 'error'    *)
(* or the connection's user may call disconnect() in between.              *)
(***************************************************************************)
\* new CgateConnection('event', host, port, settings); delay is the delay
\* of the latest reconnect scheduled, nth the number of reconnects
\* scheduled since the latest successful connect or disconnect(),
\* disconnected says that disconnect() was called and connect() not since,
\* and escaped that an exception left _handleError() (history)
NewEventConnection(initial, max, listener) ==
    [socket |-> "none", connected |-> FALSE, isDestroyed |-> FALSE,
     reconnectAttempts |-> 0, reconnectTimeout |-> FALSE,
     reconnectInitialDelay |-> initial, reconnectMaxDelay |-> max,
     hasErrorListener |-> listener, delay |-> 0, nth |-> 0,
     closePending |-> FALSE, disconnected |-> FALSE, written |-> <<>>,
     escaped |-> FALSE]

\* EventEmitter.emit('error', err) throws err when 'error' has no listener
EmitErrorThrows(hasListener) == ~hasListener

\* a reconnectmaxdelay the doubling reaches within the faults modelled
ShortReconnectMaxDelay == 4000
ReconnectDelaySettings ==
    { <<DefaultReconnectInitialDelay, DefaultReconnectMaxDelay>>,
      <<DefaultReconnectInitialDelay, ShortReconnectMaxDelay>> }

\* mutant of ReconnectDelay: the counter is incremented before the delay is
\* computed
ReconnectDelayAfterIncrement(initial, max, attempts) ==
    Min(initial * 2 ^ (attempts + 1), max)
\* _scheduleReconnect(): Math.min(reconnectInitialDelay * Math.pow(2, reconnectAttempts), reconnectMaxDelay)
ReconnectDelay(initial, max, attempts) == Min(initial * 2 ^ attempts, max)

\* the faults of the event connection and of MQTT in a run: of the
\* connection on its own, or of the bridge
EventFaultBudget == IF bridgePhase = "none" THEN MaxEventFaults ELSE MaxBridgeFaults

\* _scheduleReconnect()
ScheduleReconnect(r) ==
    IF ~ReconnectScheduled(r)
    THEN r
    ELSE [r EXCEPT !.delay = ReconnectDelay(r.reconnectInitialDelay,
                                            r.reconnectMaxDelay, r.reconnectAttempts),
                   !.reconnectAttempts = @ + 1,
                   !.reconnectTimeout = TRUE,
                   !.nth = @ + 1]

\* _handleClose(hadError)
HandleClose(r) ==
    ScheduleReconnect([r EXCEPT !.connected = FALSE, !.socket = "none", !.written = <<>>])

\* _handleConnect() of a connection of type 'event'
HandleConnect(r) ==
    [r EXCEPT !.connected = TRUE, !.reconnectAttempts = 0, !.reconnectTimeout = FALSE,
              !.socket = "open", !.nth = 0,
              !.written = InitialCommands("event", settings)]

\* the event socket's 'connect' event: _handleConnect(), whose 'connect'
\* the manager answers with _checkAllConnected()
EventSocketConnect ==
    /\ eventConn.socket = "connecting"
    /\ eventConn' = HandleConnect(eventConn)
    /\ CheckAllConnected(mqttClient.connected,
                         PoolHealthy(isStarted, healthyConnections), TRUE)
    /\ UNCHANGED <<rampVars, poolState, settings, mqttClient, eventFaults, bridgePhase>>

\* _handleError(err): the socket is destroyed and dropped, its listeners
\* stay
HandleError(r) == [r EXCEPT !.connected = FALSE, !.socket = "none", !.written = <<>>]

\* the event socket's 'error' event: _handleError(); with an 'error'
\* listener on the connection the socket's 'close' follows; without one
\* emit('error') throws out of the socket's handler and 'close' is not
\* delivered
EventSocketError ==
    /\ eventConn.socket \in {"connecting", "open"}
    /\ eventFaults < EventFaultBudget
    /\ eventFaults' = eventFaults + 1
    /\ eventConn' = [HandleError(eventConn) EXCEPT
                         !.closePending = eventConn.hasErrorListener,
                         !.escaped = @ \/ EmitErrorThrows(eventConn.hasErrorListener)]
    /\ NoExecute
    /\ UNCHANGED <<rampVars, queueVars, poolState, settings, mqttClient, bridgePhase,
                   readyVars>>

\* the 'close' event of the socket that failed: _handleClose(), whose
\* 'close' the manager answers by leaving Ready
EventSocketErrorClose ==
    /\ eventConn.closePending
    /\ eventConn' = HandleClose([eventConn EXCEPT !.closePending = FALSE])
    /\ allConnected' = FALSE
    /\ eventFaults' = eventFaults
    /\ NoExecute
    /\ UNCHANGED <<rampVars, queueVars, poolState, settings, mqttClient, bridgePhase,
                   periodicGetAllInterval, haDiscovery, readyLog>>

\* the event socket's 'close' event after the peer closed it:
\* _handleClose(), whose 'close' the manager answers by leaving Ready
EventSocketClose ==
    /\ eventConn.socket = "open"
    /\ eventFaults < EventFaultBudget
    /\ eventFaults' = eventFaults + 1
    /\ eventConn' = HandleClose(eventConn)
    /\ allConnected' = FALSE
    /\ NoExecute
    /\ UNCHANGED <<rampVars, queueVars, poolState, settings, mqttClient, bridgePhase,
                   periodicGetAllInterval, haDiscovery, readyLog>>

\* the setTimeout callback of _scheduleReconnect(): connect()
EventReconnectTimer ==
    /\ eventConn.reconnectTimeout
    /\ eventConn' = [eventConn EXCEPT !.reconnectTimeout = FALSE, !.socket = "connecting"]
    /\ NoExecute
    /\ UNCHANGED <<rampVars, queueVars, poolState, settings, mqttClient, eventFaults,
                   bridgePhase, readyVars>>

\* connect() called on a connection without a socket, and not while the
\* 'close' of a failed socket is outstanding
Connect ==
    /\ eventConn.socket = "none"
    /\ ~eventConn.reconnectTimeout
    /\ ~eventConn.closePending
    /\ eventConn' = [EventConnect(eventConn) EXCEPT !.disconnected = FALSE]
    /\ NoExecute
    /\ UNCHANGED <<rampVars, queueVars, poolState, settings, mqttClient, eventFaults,
                   bridgePhase, readyVars>>

\* disconnect() called on the connection
Disconnect ==
    /\ ~eventConn.isDestroyed \/ eventConn.socket # "none"
    /\ eventConn' = [Disconnected(eventConn) EXCEPT !.nth = 0, !.disconnected = TRUE]
    /\ NoExecute
    /\ UNCHANGED <<rampVars, queueVars, poolState, settings, mqttClient, eventFaults,
                   bridgePhase, readyVars>>

(***************************************************************************)
(* MqttManager.  client is "none" (this.client === null), "connecting" or  *)
(* "open".  library is the state of the client object mqtt.connect()       *)
(* returned, whether the manager still holds it or not: "none" (not        *)
(* created, or ended), "connecting", "open", or "closed" while it waits    *)
(* for its reconnectPeriod.  announced says that _handleConnect() has      *)
(* published Online and subscribed on the library's present connection,    *)
(* and emitted is the latest event the manager emitted (history).          *)
(***************************************************************************)
\* new MqttManager(settings)
NewMqttManager ==
    [client |-> "none", connected |-> FALSE, library |-> "none",
     announced |-> FALSE, emitted |-> "none", escaped |-> FALSE]

\* the listeners of the MqttManager's 'error' event: the ConnectionManager
\* listens to 'connect' and 'close', the bridge to 'message'
ManagerHasErrorListener == FALSE

\* _handleClose() and _handleError(): this.client.removeAllListeners(),
\* this.client = null; the client object is not ended
ClientDropped(m, event) ==
    [m EXCEPT !.client = "none", !.connected = FALSE, !.library = "closed",
              !.announced = FALSE, !.emitted = event]

\* MqttManager.connect() on a manager without a client
MqttManagerConnect(m) ==
    [m EXCEPT !.client = "connecting", !.connected = FALSE, !.library = "connecting"]

\* MqttManager.disconnect(): a client the manager holds is ended
MqttDisconnected(m) ==
    [m EXCEPT !.client = "none", !.connected = FALSE,
              !.library = IF m.client # "none" THEN "none" ELSE @,
              !.announced = IF m.client # "none" THEN FALSE ELSE @]

\* the client's 'connect' event: _handleConnect(), whose 'connect' the
\* manager answers with _checkAllConnected()
MqttConnect ==
    /\ mqttClient.client = "connecting"
    /\ mqttClient.library = "connecting"
    /\ mqttClient' = [mqttClient EXCEPT !.client = "open", !.connected = TRUE,
                                        !.library = "open", !.announced = TRUE,
                                        !.emitted = "connect"]
    /\ CheckAllConnected(TRUE, PoolHealthy(isStarted, healthyConnections),
                         eventConn.connected)
    /\ UNCHANGED <<rampVars, poolState, settings, eventConn, eventFaults, bridgePhase>>

\* the client's 'close' event: _handleClose() drops the client, and the
\* manager answers its 'close' by leaving Ready
MqttClose ==
    /\ mqttClient.client = "open"
    /\ eventFaults < EventFaultBudget
    /\ eventFaults' = eventFaults + 1
    /\ mqttClient' = ClientDropped(mqttClient, "close")
    /\ allConnected' = FALSE
    /\ NoExecute
    /\ UNCHANGED <<rampVars, queueVars, poolState, settings, eventConn, bridgePhase,
                   periodicGetAllInterval, haDiscovery, readyLog>>

\* the client's 'error' event: _handleError() drops the client and emits
\* 'error', which nothing listens to
MqttError ==
    /\ mqttClient.client \in {"connecting", "open"}
    /\ eventFaults < EventFaultBudget
    /\ eventFaults' = eventFaults + 1
    /\ mqttClient' = [ClientDropped(mqttClient, "error") EXCEPT
                         !.escaped = @ \/ EmitErrorThrows(ManagerHasErrorListener)]
    /\ NoExecute
    /\ UNCHANGED <<rampVars, queueVars, poolState, settings, eventConn, bridgePhase,
                   readyVars>>

\* the library's reconnect timer (reconnectPeriod) of a client that has
\* closed: it connects again
MqttLibraryReconnect ==
    /\ mqttClient.library = "closed"
    /\ mqttClient' = [mqttClient EXCEPT !.library = "connecting"]
    /\ NoExecute
    /\ UNCHANGED <<rampVars, queueVars, poolState, settings, eventConn, eventFaults,
                   bridgePhase, readyVars>>

\* the 'connect' event of a client the manager has dropped: its listeners
\* were removed, so no handler runs
MqttLibraryConnect ==
    /\ mqttClient.client = "none"
    /\ mqttClient.library = "connecting"
    /\ mqttClient' = [mqttClient EXCEPT !.library = "open"]
    /\ NoExecute
    /\ UNCHANGED <<rampVars, queueVars, poolState, settings, eventConn, eventFaults,
                   bridgePhase, readyVars>>

(***************************************************************************)
(* CgateWebBridge: start(), stop(), and the producers and the consumer of  *)
(* the command queue.                                                      *)
(***************************************************************************)
\* CgateWebBridge.start() and ConnectionManager.start() up to the await of
\* pool.start(): mqttManager.connect(), then the pool starts
BridgeStart ==
    /\ bridgePhase = "new"
    /\ bridgePhase' = "starting"
    /\ mqttClient' = MqttManagerConnect(mqttClient)
    /\ PoolStart
    /\ NoExecute
    /\ UNCHANGED <<rampVars, queueVars, settings, eventConn, eventFaults, readyVars>>

\* CgateWebBridge.stop() and ConnectionManager.stop() up to the await of
\* pool.stop(): the periodic timer and the queue are cleared, MQTT is
\* disconnected and the pool begins to stop
BridgeStop ==
    /\ bridgePhase \in {"running", "startFailed"}
    /\ periodicGetAllInterval' = [ClearPeriodic(periodicGetAllInterval) EXCEPT
                                     !.handle = FALSE]
    /\ ClearCore
    /\ mqttClient' = MqttDisconnected(mqttClient)
    /\ PoolStop
    /\ bridgePhase' = "stopping"
    /\ NoExecute
    /\ UNCHANGED <<rampVars, settings, eventConn, eventFaults, allConnected,
                   haDiscovery, readyLog>>

\* the setInterval callback of _handleAllConnected(): the periodic get-all
PeriodicGetAllTick ==
    /\ periodicGetAllInterval.timers > 0
    /\ CommandQueueAdd("getall")
    /\ UNCHANGED <<rampVars, poolState, bridgeVars>>

\* the command queue's timer callback: _process() hands the first item to
\* _sendCgateCommand
CommandQueueTick ==
    /\ TimerTickCore(FALSE)
    /\ IF queue # <<>> THEN SendCgateCommand(ShiftItem(queue).by) ELSE NoExecute
    /\ UNCHANGED <<rampVars, poolState, bridgeVars>>

(***************************************************************************)
(* CBusCommand: an MQTT message parsed into a command.  A topic            *)
(* cbus/write/<n>/<a>/<g>/<kind> is the record of the four groups that     *)
(* COMMAND_TOPIC_REGEX captures; a payload is a string of characters.  The *)
(* payloads have no '.', 'e' or '+', so what parseFloat returns for them   *)
(* is an integer or NaN.                                                   *)
(***************************************************************************)
\* the payloads "ON", "OFF", "INCREASE" and "DECREASE"
MQTT_STATE_ON == <<"O", "N">>
MQTT_STATE_OFF == <<"O", "F", "F">>
MQTT_COMMAND_INCREASE == <<"I", "N", "C", "R", "E", "A", "S", "E">>
MQTT_COMMAND_DECREASE == <<"D", "E", "C", "R", "E", "A", "S", "E">>

\* String.prototype.toUpperCase(), for the letters the payloads are made of
UpperCaseChar(c) ==
    CASE c = "o" -> "O"
      [] c = "n" -> "N"
      [] c = "f" -> "F"
      [] c = "s" -> "S"
      [] c = "x" -> "X"
      [] OTHER -> c
ToUpperCase(chars) == [i \in 1..Len(chars) |-> UpperCaseChar(chars[i])]

\* payload.split(','): parts[0], and parts[1] (NoValue for undefined)
RECURSIVE UpToComma(_)
UpToComma(chars) ==
    IF chars = <<>> \/ Head(chars) = "," THEN <<>>
    ELSE <<Head(chars)>> \o UpToComma(Tail(chars))
FirstPart(chars) == UpToComma(chars)
SecondPart(chars) ==
    LET n == Len(UpToComma(chars))
    IN  IF n = Len(chars) THEN NoValue
        ELSE Str(UpToComma(SubSeq(chars, n + 2, Len(chars))))

\* parseFloat(string): blanks skipped, an optional '-', then the longest run
\* of decimal digits; NaN when there is no digit
DecimalDigits == <<"0", "1", "2", "3", "4", "5", "6", "7", "8", "9">>
IsDigit(c) == \E i \in 1..Len(DecimalDigits) : DecimalDigits[i] = c
DigitValue(c) == (CHOOSE i \in 1..Len(DecimalDigits) : DecimalDigits[i] = c) - 1
RECURSIVE DigitRun(_)
DigitRun(chars) ==
    IF chars # <<>> /\ IsDigit(Head(chars))
    THEN <<Head(chars)>> \o DigitRun(Tail(chars))
    ELSE <<>>
RECURSIVE NumberOf(_)
NumberOf(digits) ==
    IF digits = <<>> THEN 0
    ELSE 10 * NumberOf(SubSeq(digits, 1, Len(digits) - 1))
         + DigitValue(digits[Len(digits)])
ParseFloat(chars) ==
    LET body == TrimStart(chars)
        negative == body # <<>> /\ Head(body) = "-"
        digits == DigitRun(IF negative THEN Tail(body) ELSE body)
    IN  [nan |-> digits = <<>>,
         value |-> IF negative THEN 0 - NumberOf(digits) ELSE NumberOf(digits)]

\* this._level: null, a number, or the string 'INCREASE' or 'DECREASE'
NoLevel == [is |-> "null", n |-> 0]
NumberLevel(n) == [is |-> "number", n |-> n]
WordLevel(w) == [is |-> w, n |-> 0]

\* no command built yet
NoCommand ==
    [network |-> "", application |-> "", group |-> "", commandType |-> "",
     payload |-> <<>>, isValid |-> FALSE, level |-> NoLevel, rampTime |-> NoValue,
     raw |-> <<>>]

\* _parseSwitchPayload()
ParseSwitchPayload(c) ==
    LET upperPayload == ToUpperCase(c.payload)
    IN  IF upperPayload = MQTT_STATE_ON
        THEN [c EXCEPT !.level = NumberLevel(CGATE_LEVEL_MAX)]
        ELSE IF upperPayload = MQTT_STATE_OFF
        THEN [c EXCEPT !.level = NumberLevel(CGATE_LEVEL_MIN)]
        ELSE [c EXCEPT !.isValid = FALSE]

\* _parseRampLevelAndTime(): "50", "50,4s"
ParseRampLevelAndTime(c) ==
    LET levelPart == Trim(FirstPart(c.payload))
        second == SecondPart(c.payload)
        \* parts[1] ? parts[1].trim() : null
        timePart == IF second.string /\ second.chars # <<>>
                    THEN Str(Trim(second.chars)) ELSE NoValue
        levelValue == ParseFloat(levelPart)
    IN  IF levelValue.nan THEN [c EXCEPT !.isValid = FALSE]
        ELSE [c EXCEPT !.level = NumberLevel(ScalePercent(levelValue.value)),
                       !.rampTime = IF timePart.string /\ timePart.chars # <<>>
                                    THEN timePart ELSE @]

\* _parseRampPayload()
ParseRampPayload(c) ==
    LET upperPayload == ToUpperCase(c.payload)
    IN  CASE upperPayload = MQTT_STATE_ON ->
               [c EXCEPT !.level = NumberLevel(CGATE_LEVEL_MAX)]
          [] upperPayload = MQTT_STATE_OFF ->
               [c EXCEPT !.level = NumberLevel(CGATE_LEVEL_MIN)]
          [] upperPayload = MQTT_COMMAND_INCREASE ->
               [c EXCEPT !.level = WordLevel("INCREASE")]
          [] upperPayload = MQTT_COMMAND_DECREASE ->
               [c EXCEPT !.level = WordLevel("DECREASE")]
          [] OTHER -> ParseRampLevelAndTime(c)

\* _parsePayload()
ParsePayload(c) ==
    CASE c.commandType = "switch" -> ParseSwitchPayload(c)
      [] c.commandType = "ramp" -> ParseRampPayload(c)
      [] OTHER -> c

\* _parse(), for a topic that COMMAND_TOPIC_REGEX matches
ValidCommandTypes == {"getall", "gettree", "switch", "ramp", "setvalue"}
Parse(c) ==
    IF c.commandType \notin ValidCommandTypes
    THEN [c EXCEPT !.isValid = FALSE]
    ELSE [ParsePayload(c) EXCEPT !.isValid = TRUE]

\* new CBusCommand(topic, payload); raw is history: the payload as received
NewCBusCommand(topic, payload) ==
    Parse([network |-> topic.network, application |-> topic.application,
           group |-> topic.group, commandType |-> topic.commandType,
           payload |-> Trim(payload), isValid |-> FALSE, level |-> NoLevel,
           rampTime |-> NoValue, raw |-> payload])

(***************************************************************************)
(* MqttCommandRouter.routeMessage(topic, payload)                          *)
(***************************************************************************)
\* the C-Gate commands it enqueues: "<verb> //<project>/<n>/<a>/<g>[ <arg>]
\* [ <rampTime>]" and "TREEXML <n>"; req as above
CgateCmd(verb, c, group, arg, time) ==
    [verb |-> verb, network |-> c.network, application |-> c.application,
     group |-> group, arg |-> arg, rampTime |-> time, req |-> 0]

\* _handleSwitch
HandleSwitch(c, payload) ==
    LET action == ToUpperCase(payload)
    IN  IF action = MQTT_STATE_ON
        THEN <<CgateCmd("ON", c, c.group, NoLevel, NoValue)>>
        ELSE IF action = MQTT_STATE_OFF
        THEN <<CgateCmd("OFF", c, c.group, NoLevel, NoValue)>>
        ELSE <<>>

\* _handleAbsoluteLevel
HandleAbsoluteLevel(c) ==
    IF c.level # NoLevel
    THEN <<CgateCmd("RAMP", c, c.group, c.level, c.rampTime)>>
    ELSE <<>>

\* _handleRamp, but for INCREASE and DECREASE
HandleRamp(c, payload) ==
    LET rampAction == ToUpperCase(payload)
    IN  IF c.group = "" THEN <<>>
        ELSE IF rampAction = MQTT_STATE_ON
        THEN <<CgateCmd("ON", c, c.group, NoLevel, NoValue)>>
        ELSE IF rampAction = MQTT_STATE_OFF
        THEN <<CgateCmd("OFF", c, c.group, NoLevel, NoValue)>>
        ELSE HandleAbsoluteLevel(c)

\* _processCommand: what the handlers of the command types enqueue at once
\* (the 'treeRequest' event of _handleGetTree is listened to by the bridge
\* for HaDiscovery and changes nothing here)
ProcessCommand(c, payload) ==
    CASE c.commandType = "gettree" ->
           <<[verb |-> "TREEXML", network |-> c.network, application |-> "",
              group |-> "", arg |-> NoLevel, rampTime |-> NoValue, req |-> 0]>>
      [] c.commandType = "getall" ->
           <<CgateCmd("GET", c, "*", WordLevel("level"), NoValue)>>
      [] c.commandType = "switch" -> HandleSwitch(c, payload)
      [] c.commandType = "ramp" -> HandleRamp(c, payload)
      [] OTHER -> <<>>

\* the topics and payloads of the messages routed
Topics ==
    { [network |-> "254", application |-> LightingApp, group |-> "4", commandType |-> k] :
        k \in ValidCommandTypes \cup {"status"} }
    \cup { [network |-> "254", application |-> LightingApp, group |-> "", commandType |-> k] :
             k \in {"switch", "ramp"} }
Payloads ==
    { <<>>, <<"O", "N">>, <<"o", "n">>, <<"O", "F", "F">>,
      <<" ", "O", "N">>, <<"x">>, <<"5", "x">>, <<",", "2", "s">>,
      <<"I", "N", "C", "R", "E", "A", "S", "E">>, <<"D", "E", "C", "R", "E", "A", "S", "E">>,
      <<"0">>, <<"1", "0">>, <<"5", "0">>, <<"1", "0", "0">>, <<"1", "5", "0">>,
      <<"-", "5">>, <<" ", "5", "0", " ">>, <<"5", "0", ",", "2", "s">>,
      <<"5", "0", ",", " ">>, <<"5", "0", ",", "2", "s", ",", "x">> }

\* routeMessage, for a topic other than the manual discovery trigger; the
\* bridge's 'treeRequest' listener sets haDiscovery.treeNetwork
RouteMessageCore(topic, payload) ==
    LET c == NewCBusCommand(topic, payload)
        relative == /\ c.isValid /\ c.commandType = "ramp" /\ c.group # ""
                    /\ ToUpperCase(payload) \in {MQTT_COMMAND_INCREASE, MQTT_COMMAND_DECREASE}
    IN  /\ command' = c
        /\ UNCHANGED <<cbusEvent, published, discovery, lineVars, responseVars>>
        /\ IF relative
           THEN HandleRelativeLevel(
                  [net |-> c.network, app |-> c.application, group |-> c.group],
                  IF ToUpperCase(payload) = MQTT_COMMAND_INCREASE
                  THEN RAMP_STEP ELSE 0 - RAMP_STEP)
           ELSE /\ enqueued' = IF c.isValid
                               THEN QueueAll(enqueued, ProcessCommand(c, payload))
                               ELSE enqueued
                /\ haDiscovery' =
                     IF c.isValid /\ c.commandType = "gettree" /\ haDiscovery.created
                     THEN [haDiscovery EXCEPT !.treeNetwork = c.network]
                     ELSE haDiscovery
                /\ UNCHANGED <<levelListeners, requests, lastEmitRamps, clock,
                               queueVars, poolVars, settings, mqttClient, eventConn,
                               eventFaults, bridgePhase, allConnected,
                               periodicGetAllInterval, readyLog>>

\* a message arrives from the broker
RouteMessage(topic, payload) ==
    /\ Routed < MaxRouted
    /\ RouteMessageCore(topic, payload)

(***************************************************************************)
(* EventPublisher.publishEvent(event)                                      *)
(***************************************************************************)
\* a CBusEvent: address, action, level (NullLevel for null) and isValid()
EventLevels == {0, 1, 2, 127, 128, 254, 255, NullLevel}
Events ==
    { [network |-> a.net, application |-> a.app, group |-> a.group,
       action |-> act, level |-> lv, isValid |-> v] :
        a \in Addresses, act \in {"on", "off", "ramp"}, lv \in EventLevels,
        v \in BOOLEAN }
\* no event published yet
NoEvent ==
    [network |-> "", application |-> "", group |-> "", action |-> "",
     level |-> NullLevel, isValid |-> FALSE]

\* Number.prototype.toString() of an integer that is not negative
RECURSIVE NumberToString(_)
NumberToString(n) ==
    IF n < 10 THEN <<DecimalDigits[n + 1]>>
    ELSE NumberToString(n \div 10) \o <<DecimalDigits[(n % 10) + 1]>>

\* levelPercent: Math.round(level / CGATE_LEVEL_MAX * 100), or 100 / 0 from
\* the action
LevelPercent(ev) ==
    IF ev.level # NullLevel
    THEN (2 * ev.level * 100 + CGATE_LEVEL_MAX) \div (2 * CGATE_LEVEL_MAX)
    ELSE IF ev.action = "on" THEN 100 ELSE 0

\* mutant of PublishedState: the state always from the action
PublishedStateFromAction(ev, isPirSensor) ==
    IF ev.action = "on" THEN MQTT_STATE_ON ELSE MQTT_STATE_OFF
\* state
PublishedState(ev, isPirSensor) ==
    IF isPirSensor
    THEN IF ev.action = "on" THEN MQTT_STATE_ON ELSE MQTT_STATE_OFF
    ELSE IF ev.level # NullLevel
    THEN IF LevelPercent(ev) > 0 THEN MQTT_STATE_ON ELSE MQTT_STATE_OFF
    ELSE IF ev.action = "on" THEN MQTT_STATE_ON ELSE MQTT_STATE_OFF

\* a message for mqttPublishQueue on topic cbus/read/<n>/<a>/<g>/<suffix>
ReadMessage(ev, suffix, payload) ==
    [network |-> ev.network, application |-> ev.application, group |-> ev.group,
     suffix |-> suffix, payload |-> payload]

\* publishEvent(event): what it adds to mqttPublishQueue
PublishMessages(ev) ==
    LET isPirSensor == ev.application = PirApp
    IN  /\ cbusEvent' = ev
        /\ published' =
             IF ~ev.isValid THEN <<>>
             ELSE <<ReadMessage(ev, "state", PublishedState(ev, isPirSensor))>> \o
                  (IF ~isPirSensor
                   THEN <<ReadMessage(ev, "level", NumberToString(LevelPercent(ev)))>>
                   ELSE <<>>)

\* publishEvent(event), called with nothing else
PublishEvent(ev) ==
        /\ PublishMessages(ev)
        /\ UNCHANGED <<levelListeners, enqueued, requests, lastEmitRamps, clock,
                       command, discovery, lineVars, responseVars, queueVars, poolVars,
                       bridgeVars>>

(***************************************************************************)
(* HaDiscovery._publishDiscoveryFromTree(networkId, treeData).  The tree   *)
(* is what xml2js made of the TreeXML: Network.Interface.Network with its  *)
(* NetworkNumber and Units, each Unit with Applications, each Application  *)
(* with its ApplicationAddress and Groups, each Group with a GroupAddress  *)
(* (NoValue when the attribute is missing).  One element and an array of   *)
(* elements are both sequences here.                                       *)
(***************************************************************************)
DEFAULT_CBUS_APP_LIGHTING == Str(<<"5", "6">>)
CoverApp == Str(<<"2", "0", "3">>)
OtherApp == Str(<<"2", "0", "4">>)
DiscoveryNetwork == Str(<<"2", "5", "4">>)

\* ha_discovery_cover_app_id, _switch_, _relay_, _pir_: the values modelled,
\* and those of a run that is about something else
DiscoveryIds ==
    [cover : {NoValue, CoverApp, OtherApp},
     switch : {NoValue, Str(<<>>), CoverApp},
     relay : {NoValue, CoverApp, OtherApp},
     pir : {NoValue, CoverApp, DEFAULT_CBUS_APP_LIGHTING}]
DefaultDiscoveryIds ==
    [cover |-> NoValue, switch |-> NoValue, relay |-> NoValue,
     pir |-> Str(<<"2", "0", "2">>)]

\* new HaDiscovery(settings, ...)
NewHaDiscovery(ids) ==
    [settings |-> ids, network |-> NoValue, tree |-> NoValue, published |-> <<>>]

\* the Groups of an Application, the Units, and the trees modelled
GroupLists ==
    LET g(addr) == [GroupAddress |-> addr]
    IN  { <<g(Str(<<"1">>))>>, <<g(Str(<<>>))>>, <<g(NoValue), g(Str(<<"2">>))>>,
          <<g(Str(<<"1">>)), g(Str(<<>>))>> }
Units ==
    { [Application |-> <<[ApplicationAddress |-> a, Group |-> gs]>>] :
        a \in {DEFAULT_CBUS_APP_LIGHTING, CoverApp, OtherApp}, gs \in GroupLists }
Trees ==
    { [NetworkNumber |-> DiscoveryNetwork, Unit |-> us] :
        us \in { <<u>> : u \in Units } \cup { <<u, v>> : u, v \in Units } }
    \cup { [NetworkNumber |-> Str(<<"2", "5", "5">>), Unit |-> <<u>>] : u \in Units }

\* a value that an if takes as true: not undefined or null, not ''
Truthy(v) == v.string /\ v.chars # <<>>

\* a discovery config published on <prefix>/<component>/cgateweb_<n>_<a>_<g>/config
DiscoveryConfig(component, model, networkId, appId, groupId) ==
    [component |-> component, model |-> model, network |-> networkId,
     application |-> appId, group |-> groupId]

\* groupId === undefined || groupId === null || groupId === ''
MissingGroupAddress(group) == ~Truthy(group.GroupAddress)

\* _processLightingGroups
RECURSIVE ProcessLightingGroups(_, _, _)
ProcessLightingGroups(networkId, appId, groups) ==
    IF groups = <<>> THEN <<>>
    ELSE (IF MissingGroupAddress(Head(groups)) THEN <<>>
          ELSE <<DiscoveryConfig("light", "lighting", networkId, appId,
                                 Head(groups).GroupAddress)>>)
         \o ProcessLightingGroups(networkId, appId, Tail(groups))

\* mutant of EnableControlType: a config for the switch id as well as for
\* the cover id
EnableControlTypeEach(ids, appAddress) ==
    (IF Truthy(ids.cover) /\ appAddress = ids.cover THEN <<"cover">> ELSE <<>>) \o
    (IF Truthy(ids.switch) /\ appAddress = ids.switch THEN <<"switch">> ELSE <<>>)
\* the if / else if chain of _processEnableControlGroups: the types a group
\* of the application is discovered as
EnableControlType(ids, appAddress) ==
    IF Truthy(ids.cover) /\ appAddress = ids.cover THEN <<"cover">>
    ELSE IF Truthy(ids.switch) /\ appAddress = ids.switch THEN <<"switch">>
    ELSE IF Truthy(ids.relay) /\ appAddress = ids.relay THEN <<"relay">>
    ELSE IF Truthy(ids.pir) /\ appAddress = ids.pir THEN <<"pir">>
    ELSE <<>>

\* _getDiscoveryConfig(type).component
ComponentOf(type) ==
    CASE type = "cover" -> "cover"
      [] type = "switch" -> "switch"
      [] type = "relay" -> "switch"
      [] type = "pir" -> "binary_sensor"

RECURSIVE CreateDiscoveries(_, _, _, _)
\* _createCoverDiscovery, ... for each of the types, in order
CreateDiscoveries(types, networkId, appId, groupId) ==
    IF types = <<>> THEN <<>>
    ELSE <<DiscoveryConfig(ComponentOf(Head(types)), Head(types), networkId, appId, groupId)>>
         \o CreateDiscoveries(Tail(types), networkId, appId, groupId)

\* _processEnableControlGroups
RECURSIVE ProcessEnableControlGroups(_, _, _, _)
ProcessEnableControlGroups(ids, networkId, appAddress, groups) ==
    IF groups = <<>> THEN <<>>
    ELSE (IF MissingGroupAddress(Head(groups)) THEN <<>>
          ELSE CreateDiscoveries(EnableControlType(ids, appAddress), networkId,
                                 appAddress, Head(groups).GroupAddress))
         \o ProcessEnableControlGroups(ids, networkId, appAddress, Tail(groups))

\* applications.forEach(app => ...) of one unit
RECURSIVE ProcessApplications(_, _, _)
ProcessApplications(ids, networkId, apps) ==
    IF apps = <<>> THEN <<>>
    ELSE LET app == Head(apps)
             appAddress == app.ApplicationAddress
         IN  (IF appAddress = DEFAULT_CBUS_APP_LIGHTING /\ app.Group # <<>>
              THEN ProcessLightingGroups(networkId, appAddress, app.Group)
              ELSE IF /\ app.Group # <<>>
                      /\ \/ Truthy(ids.cover) /\ appAddress = ids.cover
                         \/ Truthy(ids.switch) /\ appAddress = ids.switch
                         \/ Truthy(ids.relay) /\ appAddress = ids.relay
                         \/ Truthy(ids.pir) /\ appAddress = ids.pir
              THEN ProcessEnableControlGroups(ids, networkId, appAddress, app.Group)
              ELSE <<>>)
             \o ProcessApplications(ids, networkId, Tail(apps))

\* units.forEach(unit => ...)
RECURSIVE ProcessUnits(_, _, _)
ProcessUnits(ids, networkId, units) ==
    IF units = <<>> THEN <<>>
    ELSE ProcessApplications(ids, networkId, Head(units).Application)
         \o ProcessUnits(ids, networkId, Tail(units))

\* _publishDiscoveryFromTree(networkId, treeData)
PublishDiscoveryFromTree(networkId, tree) ==
    /\ discovery' =
         [discovery EXCEPT
            !.network = networkId,
            !.tree = tree,
            !.published = IF tree.NetworkNumber # networkId THEN <<>>
                          ELSE ProcessUnits(discovery.settings, networkId, tree.Unit)]
    /\ UNCHANGED <<levelListeners, enqueued, requests, lastEmitRamps, clock,
                   command, cbusEvent, published, lineVars, responseVars, queueVars, poolVars,
                   bridgeVars>>

(***************************************************************************)
(* The command data path: a pool connection's 'data' event, forwarded by   *)
(* the pool, handled by CgateWebBridge._handleCommandData with the one     *)
(* commandLineProcessor of the bridge (a readline interface on a           *)
(* PassThrough stream).  A byte carries, as history, the line of C-Gate    *)
(* it belongs to.  The line break is NEWLINE; connection.lastActivity is   *)
(* not part of this state.                                                 *)
(***************************************************************************)
NEWLINE == "\n"
\* the texts of the lines C-Gate writes: "ok" and a blank line
LineTexts == { <<"o", "k">>, <<" ">> }

\* new LineProcessor(), and nothing written by C-Gate yet
InitLines ==
    /\ cgateLines = <<>>
    /\ inflight = [c \in ConnIds |-> <<>>]
    /\ lineBuffer = <<>>
    /\ commandLines = <<>>

\* the bytes of line number id with its line break
BytesOfLine(id, text) ==
    [i \in 1..(Len(text) + 1) |->
        [line |-> id, ch |-> IF i <= Len(text) THEN text[i] ELSE NEWLINE]]

\* C-Gate writes a line to an open command connection
CgateWritesLine(c, text) ==
    /\ c \in DOMAIN conn
    /\ conn[c].connected
    /\ Len(cgateLines) < MaxLines
    /\ cgateLines' = Append(cgateLines, [from |-> c, text |-> text])
    /\ inflight' = [inflight EXCEPT ![c] = @ \o BytesOfLine(Len(cgateLines) + 1, text)]
    /\ UNCHANGED <<lineBuffer, commandLines, command, cbusEvent, published, discovery,
                   responseVars,
                   levelListeners, enqueued, requests, lastEmitRamps, clock,
                   queueVars, poolVars, bridgeVars>>

\* readline: the complete lines of the bytes, without their line breaks
RECURSIVE CompleteLines(_, _)
CompleteLines(bytes, current) ==
    IF bytes = <<>> THEN <<>>
    ELSE IF Head(bytes).ch = NEWLINE
    THEN <<current>> \o CompleteLines(Tail(bytes), <<>>)
    ELSE CompleteLines(Tail(bytes), Append(current, Head(bytes)))
\* readline: the bytes after the last line break
RECURSIVE Remainder(_, _)
Remainder(bytes, current) ==
    IF bytes = <<>> THEN current
    ELSE IF Head(bytes).ch = NEWLINE THEN Remainder(Tail(bytes), <<>>)
    ELSE Remainder(Tail(bytes), Append(current, Head(bytes)))

\* line.trim() on bytes
RECURSIVE TrimLineStart(_)
TrimLineStart(bytes) ==
    IF bytes # <<>> /\ Head(bytes).ch = " " THEN TrimLineStart(Tail(bytes)) ELSE bytes
RECURSIVE TrimLineEnd(_)
TrimLineEnd(bytes) ==
    IF bytes # <<>> /\ bytes[Len(bytes)].ch = " "
    THEN TrimLineEnd(SubSeq(bytes, 1, Len(bytes) - 1))
    ELSE bytes
\* LineProcessor._processLine for each line: trimLines, skipEmptyLines, then
\* the lineProcessor callback
RECURSIVE ProcessLines(_)
ProcessLines(ls) ==
    IF ls = <<>> THEN <<>>
    ELSE LET line == TrimLineEnd(TrimLineStart(Head(ls)))
         IN  (IF line = <<>> THEN <<>> ELSE <<line>>) \o ProcessLines(Tail(ls))

\* LineProcessor.processData(data, lineProcessor): this.stream.write(data)
ProcessData(data) ==
    /\ lineBuffer' = Remainder(lineBuffer \o data, <<>>)
    /\ commandLines' = commandLines \o ProcessLines(CompleteLines(lineBuffer \o data, <<>>))

\* the socket of connection c delivers the next n bytes: the connection and
\* the pool emit 'data', the bridge calls _handleCommandData(data)
SocketData(c, n) ==
    /\ c \in DOMAIN conn
    /\ conn[c].connected
    /\ n \in 1..Len(inflight[c])
    /\ inflight' = [inflight EXCEPT ![c] = SubSeq(@, n + 1, Len(@))]
    /\ ProcessData(SubSeq(inflight[c], 1, n))
    /\ UNCHANGED <<cgateLines, command, cbusEvent, published, discovery, responseVars,
                   levelListeners, enqueued, requests, lastEmitRamps, clock,
                   queueVars, poolVars, bridgeVars>>

(***************************************************************************)
(* CommandResponseProcessor.processLine(line), with the CBusEvent made of  *)
(* a 300 line and HaDiscovery's handling of the 343/347/344 lines.  Lines  *)
(* are sequences of characters.                                            *)
(***************************************************************************)
CGATE_RESPONSE_OBJECT_STATUS == <<"3", "0", "0">>
CGATE_RESPONSE_TREE_START == <<"3", "4", "3">>
CGATE_RESPONSE_TREE_END == <<"3", "4", "4">>
CGATE_RESPONSE_TREE_DATA == <<"3", "4", "7">>

\* the characters \w matches, of those the lines modelled are made of
WordChars ==
    { DecimalDigits[i] : i \in 1..10 } \cup
    { "a", "b", "c", "e", "l", "v", "x", "B", "E", "H", "K", "O", "_" }

\* String.prototype.indexOf(ch), counted from 1; 0 when ch is not in chars
RECURSIVE IndexFrom(_, _, _)
IndexFrom(chars, ch, i) ==
    IF i > Len(chars) THEN 0
    ELSE IF chars[i] = ch THEN i
    ELSE IndexFrom(chars, ch, i + 1)
IndexOf(chars, ch) == IndexFrom(chars, ch, 1)

\* /^[1-6]\d{2}$/.test(responseCode)
ResponseCodePattern(code) ==
    /\ Len(code) = 3
    /\ code[1] \in {"1", "2", "3", "4", "5", "6"}
    /\ IsDigit(code[2])
    /\ IsDigit(code[3])

\* _parseCommandResponseLine returned null
NoResponse == [parsed |-> FALSE, responseCode |-> <<>>, statusData |-> <<>>]

\* _parseCommandResponseLine(line)
ParseCommandResponseLine(line) ==
    LET hyphenIndex == IndexOf(line, "-")
        spaceIndex == IndexOf(line, " ")
        byHyphen == hyphenIndex > 0 /\ Len(line) > hyphenIndex
        responseCode ==
            IF byHyphen THEN Trim(SubSeq(line, 1, hyphenIndex - 1))
            ELSE IF spaceIndex = 0 THEN Trim(line)
            ELSE Trim(SubSeq(line, 1, spaceIndex - 1))
        statusData ==
            IF byHyphen THEN Trim(SubSeq(line, hyphenIndex + 1, Len(line)))
            ELSE IF spaceIndex = 0 THEN <<>>
            ELSE Trim(SubSeq(line, spaceIndex + 1, Len(line)))
    IN  IF responseCode = <<>> \/ ~ResponseCodePattern(responseCode)
        THEN NoResponse
        ELSE [parsed |-> TRUE, responseCode |-> responseCode, statusData |-> statusData]

\* the index after the run of characters of class cls that starts at i
RECURSIVE RunEnd(_, _, _)
RunEnd(chars, i, cls) ==
    IF i <= Len(chars) /\ chars[i] \in cls THEN RunEnd(chars, i + 1, cls) ELSE i
\* chars has pat at index i
HasAt(chars, i, pat) ==
    /\ i + Len(pat) - 1 <= Len(chars)
    /\ SubSeq(chars, i, i + Len(pat) - 1) = pat

\* rawEvent.match(/level=(\d+)/) at index i: the digits, <<>> for no match
LevelMatchAt(chars, i) ==
    IF HasAt(chars, i, <<"l", "e", "v", "e", "l", "=">>)
    THEN SubSeq(chars, i + 6, RunEnd(chars, i + 6, {DecimalDigits[k] : k \in 1..10}) - 1)
    ELSE <<>>
RECURSIVE LevelMatchFrom(_, _)
LevelMatchFrom(chars, i) ==
    IF i > Len(chars) THEN <<>>
    ELSE IF LevelMatchAt(chars, i) # <<>> THEN LevelMatchAt(chars, i)
    ELSE LevelMatchFrom(chars, i + 1)

\* rawEvent.match(/\/\/\w+\/(\d+\/\d+\/\d+):/) at index i: the three numbers,
\* <<>> for no match
AddressMatchAt(chars, i) ==
    LET digits == {DecimalDigits[k] : k \in 1..10}
        w == RunEnd(chars, i + 2, WordChars)
        d1 == RunEnd(chars, w + 1, digits)
        d2 == RunEnd(chars, d1 + 1, digits)
        d3 == RunEnd(chars, d2 + 1, digits)
    IN  IF /\ HasAt(chars, i, <<"/", "/">>)
           /\ w > i + 2 /\ HasAt(chars, w, <<"/">>)
           /\ d1 > w + 1 /\ HasAt(chars, d1, <<"/">>)
           /\ d2 > d1 + 1 /\ HasAt(chars, d2, <<"/">>)
           /\ d3 > d2 + 1 /\ HasAt(chars, d3, <<":">>)
        THEN <<SubSeq(chars, w + 1, d1 - 1), SubSeq(chars, d1 + 1, d2 - 1),
               SubSeq(chars, d2 + 1, d3 - 1)>>
        ELSE <<>>
RECURSIVE AddressMatchFrom(_, _)
AddressMatchFrom(chars, i) ==
    IF i > Len(chars) THEN <<>>
    ELSE IF AddressMatchAt(chars, i) # <<>> THEN AddressMatchAt(chars, i)
    ELSE AddressMatchFrom(chars, i + 1)

\* the network, application and group numbers of the addresses modelled, as
\* the strings the rest of the model names them by and as characters
AddressTexts ==
    { <<"254", <<"2", "5", "4">>>>, <<"255", <<"2", "5", "5">>>>,
      <<"56", <<"5", "6">>>>, <<"202", <<"2", "0", "2">>>>, <<"4", <<"4">>>> }
TextOf(chars) ==
    IF \E p \in AddressTexts : p[2] = chars
    THEN (CHOOSE p \in AddressTexts : p[2] = chars)[1]
    ELSE "other"
CharsOf(text) == (CHOOSE p \in AddressTexts : p[1] = text)[2]

\* new CBusEvent(`300 ${statusData}`): _parseStatusResponse
StatusEvent(statusData) ==
    LET rawEvent == Trim(CGATE_RESPONSE_OBJECT_STATUS \o <<" ">> \o statusData)
        levelMatch == LevelMatchFrom(rawEvent, 1)
        addressMatch == AddressMatchFrom(rawEvent, 1)
        level == IF levelMatch # <<>> THEN NumberOf(levelMatch) ELSE NullLevel
    IN  IF addressMatch = <<>>
        THEN [NoEvent EXCEPT !.level = level]
        ELSE [network |-> TextOf(addressMatch[1]),
              application |-> TextOf(addressMatch[2]),
              group |-> TextOf(addressMatch[3]),
              action |-> IF level # NullLevel /\ level > 0 THEN "on" ELSE "off",
              level |-> level, isValid |-> TRUE]

\* no line processed yet
NoLine ==
    [n |-> 0, line |-> <<>>, handler |-> "none", responseCode |-> <<>>,
     statusData |-> <<>>, threw |-> FALSE]
InitResponses ==
    /\ response = NoLine
    /\ treeLines = <<>>
    /\ treeLog = <<>>
    /\ cgateTree = [answered |-> 0, written |-> 0]

\* _processCommandResponse: the handler of a response code
HandlerOf(responseCode) ==
    CASE responseCode = CGATE_RESPONSE_OBJECT_STATUS -> "status"
      [] responseCode = CGATE_RESPONSE_TREE_START -> "treeStart"
      [] responseCode = CGATE_RESPONSE_TREE_DATA -> "treeData"
      [] responseCode = CGATE_RESPONSE_TREE_END -> "treeEnd"
      [] OTHER -> IF responseCode[1] \in {"4", "5"} THEN "error" ELSE "info"

\* !networkForTree || !treeXmlData
NoTreeContext(h) ==
    h.treeNetwork = NullNetwork \/ h.treeNetwork = "" \/ h.treeBuffer = <<>>

\* mutant of HandleTree: handleTreeStart keeps the buffer
HandleTreeKeeps(h, handler, statusData) ==
    CASE handler = "treeData" -> [h EXCEPT !.treeBuffer = @ \o statusData \o <<NEWLINE>>]
      [] handler = "treeEnd" -> [h EXCEPT !.treeBuffer = <<>>, !.treeNetwork = NullNetwork]
      [] OTHER -> h
\* handleTreeStart, handleTreeData and handleTreeEnd on the HaDiscovery h
HandleTree(h, handler, statusData) ==
    CASE handler = "treeStart" -> [h EXCEPT !.treeBuffer = <<>>]
      [] handler = "treeData" -> [h EXCEPT !.treeBuffer = @ \o statusData \o <<NEWLINE>>]
      [] handler = "treeEnd" -> [h EXCEPT !.treeBuffer = <<>>, !.treeNetwork = NullNetwork]
      [] OTHER -> h

\* processLine(line): the tree handlers throw while this.haDiscovery is
\* null, and processLine catches and logs that
ProcessLine(line) ==
    LET r == ParseCommandResponseLine(line)
        handler == IF r.parsed THEN HandlerOf(r.responseCode) ELSE "skipped"
        isTree == handler \in {"treeStart", "treeData", "treeEnd"}
        threw == isTree /\ ~haDiscovery.created
        ev == StatusEvent(r.statusData)
        status == handler = "status" /\ ev.isValid
        a == [net |-> ev.network, app |-> ev.application, group |-> ev.group]
        emits == /\ status /\ ev.application # PirApp
                 /\ EventLevel(ev.action, ev.level) # NullLevel
        cmds == IF emits
                THEN RampsOfEmit(levelListeners, a, EventLevel(ev.action, ev.level))
                ELSE <<>>
    IN  /\ response' = [n |-> response.n + 1, line |-> line, handler |-> handler,
                        responseCode |-> r.responseCode, statusData |-> r.statusData,
                        threw |-> threw]
        /\ haDiscovery' = IF isTree /\ ~threw
                          THEN HandleTree(haDiscovery, handler, r.statusData)
                          ELSE haDiscovery
        /\ treeLines' = IF isTree /\ ~threw
                        THEN Append(treeLines, [handler |-> handler,
                                                statusData |-> r.statusData])
                        ELSE treeLines
        /\ treeLog' = IF handler = "treeEnd" /\ ~threw
                      THEN Append(treeLog,
                                  [network |-> haDiscovery.treeNetwork,
                                   buffer |-> haDiscovery.treeBuffer,
                                   handed |-> ~NoTreeContext(haDiscovery),
                                   at |-> Len(treeLines),
                                   left |-> HandleTree(haDiscovery, handler,
                                                       r.statusData)])
                      ELSE treeLog
        /\ IF status THEN PublishMessages(ev) ELSE UNCHANGED <<cbusEvent, published>>
        /\ IF emits
           THEN /\ levelListeners' = ListenersAfterEmit(levelListeners)
                /\ enqueued' = QueueAll(enqueued, cmds)
                /\ requests' = NoteDelivery(a, EventLevel(ev.action, ev.level), cmds)
                /\ lastEmitRamps' = Len(cmds)
           ELSE UNCHANGED <<levelListeners, enqueued, requests, lastEmitRamps>>
        /\ UNCHANGED <<clock, command, discovery, lineVars, queueVars, poolVars,
                       settings, mqttClient, eventConn, eventFaults, bridgePhase,
                       allConnected, periodicGetAllInterval, readyLog>>

\* the lines of the command channel modelled
ResponseLines ==
    { CGATE_RESPONSE_OBJECT_STATUS \o <<"-">> \o
          <<"/", "/", "H", "/", "2", "5", "4", "/", "5", "6", "/", "4", ":", " ",
            "l", "e", "v", "e", "l", "=", "2", "5", "5">>,
      CGATE_RESPONSE_OBJECT_STATUS \o <<" ">> \o
          <<"/", "/", "H", "/", "2", "5", "4", "/", "5", "6", "/", "4", ":", " ",
            "l", "e", "v", "e", "l", "=", "0">>,
      CGATE_RESPONSE_OBJECT_STATUS \o <<"-", "x">>,
      CGATE_RESPONSE_TREE_START \o <<"-", "B">>,
      CGATE_RESPONSE_TREE_DATA \o <<"-", " ", "a", "-", "b", " ">>,
      CGATE_RESPONSE_TREE_DATA \o <<" ", "a", "-", "b">>,
      CGATE_RESPONSE_TREE_END \o <<" ", "E">>,
      CGATE_RESPONSE_TREE_END,
      <<"2", "0", "0", " ", "O", "K">>, <<"2", "0", "0", "-", "O", "K">>,
      <<"4", "0", "1", " ", "x">>, <<"4", "0", "1", " ", "a", "-", "b">>,
      <<"5", "0", "0", "-">>, <<"7", "0", "0", "-", "x">>, <<"3", "0", "-", "x">>,
      <<"O", "K">> }

\* a line of the command channel reaches processLine
ProcessResponseLine(line) ==
    /\ response.n < MaxResponses
    /\ ProcessLine(line)
    /\ UNCHANGED cgateTree

\* the 343, 347 and 344 lines alone, in any order
TreeLines ==
    { CGATE_RESPONSE_TREE_START \o <<"-", "B">>,
      CGATE_RESPONSE_TREE_DATA \o <<"-", "a">>,
      CGATE_RESPONSE_TREE_DATA \o <<"-", "b">>,
      CGATE_RESPONSE_TREE_END \o <<" ", "E">> }
ProcessTreeLine(line) ==
    /\ response.n < MaxTreeLines
    /\ ProcessLine(line)
    /\ UNCHANGED cgateTree

\* the TREEXML commands handed to the command queue, in order
TreeRequests == SelectSeq(enqueued, LAMBDA c : c.verb = "TREEXML")

\* C-Gate's answer to TREEXML <network>
TreeAnswer(network) ==
    << CGATE_RESPONSE_TREE_START \o <<"-", "B">>,
       CGATE_RESPONSE_TREE_DATA \o <<"-">> \o CharsOf(network),
       CGATE_RESPONSE_TREE_DATA \o <<"-", "x">>,
       CGATE_RESPONSE_TREE_END \o <<" ", "E">> >>

\* C-Gate answers the TREEXML commands in the order they were queued, one
\* after the other; the next line of its answer reaches processLine
CgateTreeLine ==
    /\ cgateTree.answered < Len(TreeRequests)
    /\ LET answer == TreeAnswer(TreeRequests[cgateTree.answered + 1].network)
       IN  /\ ProcessLine(answer[cgateTree.written + 1])
           /\ cgateTree' = IF cgateTree.written + 1 = Len(answer)
                           THEN [answered |-> cgateTree.answered + 1, written |-> 0]
                           ELSE [cgateTree EXCEPT !.written = @ + 1]

\* an MQTT message on cbus/write/<network>///gettree
GetTreeTopics ==
    { [network |-> n, application |-> "", group |-> "", commandType |-> "gettree"] :
        n \in {"254", "255"} }
RouteGetTree(topic) ==
    /\ Len(TreeRequests) < MaxTreeRequests
    /\ RouteMessageCore(topic, <<>>)

(***************************************************************************)
(* Initial states and specifications.                                      *)
(***************************************************************************)
\* new CgateConnectionPool('command', host, port, settings) with
\* settings.connectionPoolSize = n; budget bounds the faults of the run
InitPoolOf(n, budget) ==
    /\ poolSize = n
    /\ faultBudget = budget
    /\ isStarted = FALSE
    /\ isShuttingDown = FALSE
    /\ conn = <<>>
    /\ connections = [i \in 1..n |-> 0]
    /\ healthyConnections = <<>>
    /\ connectionIndex = 0
    /\ reconnectionTimers = [i \in 1..n |-> NoTimers]
    /\ healthCheckTimers = {}
    /\ healthCheckTimer = FALSE
    /\ keepAliveTimer = FALSE
    /\ startPhase = "new"
    /\ stopping = FALSE
    /\ faults = 0
    /\ window = <<>>
    /\ lastExec = NoExec
    /\ startedEvent = [emitted |-> FALSE, healthy |-> 0, total |-> 0]
    /\ lossWatch = NoLoss
    /\ stoppedEmitted = FALSE
    /\ afterStop = {}
    /\ slotFailures = [i \in 1..n |-> 0]
    /\ overBudget = FALSE
    /\ lastRebuild = NoRebuild

\* the pool of the default size
InitPool == InitPoolOf(PoolSize, MaxFaults)

\* new CgateWebBridge(settings) with its ConnectionManager, MqttManager and
\* event connection ev; phase is "new", or "none" when nothing starts it
InitBridgeOf(s, ev, phase) ==
    /\ settings = s
    /\ mqttClient = NewMqttManager
    /\ eventConn = ev
    /\ eventFaults = 0
    /\ allConnected = FALSE
    /\ periodicGetAllInterval = NoInterval
    /\ haDiscovery = NoDiscovery
    /\ bridgePhase = phase
    /\ readyLog = <<>>

\* a bridge that is not started
InitBridge ==
    InitBridgeOf(PlainSettings,
                 NewEventConnection(DefaultReconnectInitialDelay,
                                    DefaultReconnectMaxDelay, FALSE),
                 "none")

\* new ThrottledQueue(processFn, intervalMs), intervalMs = d > 0
InitQueue(d) ==
    /\ intervalMs = d
    /\ queue = <<>>
    /\ interval = FALSE
    /\ timerAge = 0
    /\ processed = <<>>
    /\ sinceDispatch = 0
    /\ minGap = intervalMs
    /\ added = <<>>
    /\ dropped = {}
    /\ nClears = 0
    /\ errorsLogged = 0
    /\ lastAdd = [id |-> 0, idle |-> TRUE, drained |-> TRUE, immediate |-> TRUE]

InitRamp ==
    /\ levelListeners = <<>>
    /\ enqueued = <<>>
    /\ requests = <<>>
    /\ lastEmitRamps = 0
    /\ clock = 0
    /\ command = NoCommand
    /\ cbusEvent = NoEvent
    /\ published = <<>>
    /\ discovery = NewHaDiscovery(DefaultDiscoveryIds)
    /\ InitLines
    /\ InitResponses

\* the state after construction; the queue's interval is settings.messageinterval
Init == InitRamp /\ InitQueue(1) /\ InitPool /\ InitBridge

NextRamp ==
    \/ \E a \in RampAddresses, p \in {"INCREASE", "DECREASE", "ON", "OFF"} : RouteRamp(a, p)
    \/ \E a \in RampAddresses, p \in Percents : RouteRampAbsolute(a, p)
    \/ \E a \in Addresses, act \in {"on", "off", "ramp"}, lv \in Levels \cup {NullLevel} :
          UpdateLevelFromEvent(a, act, lv)
    \/ AdvanceClock

SpecRamp == Init /\ [][NextRamp]_vars

NextQueue ==
    \/ \E by \in Producers, threw \in BOOLEAN : Add(by, threw)
    \/ \E threw \in BOOLEAN : TimerTick(threw)
    \/ Clear
    \/ AdvanceTime

\* the state after construction, for a queue of any interval
InitAnyInterval ==
    InitRamp /\ InitPool /\ InitBridge /\ \E d \in 1..MaxIntervalMs : InitQueue(d)

SpecQueue == InitAnyInterval /\ [][NextQueue]_vars

\* timers fire and time passes
SpecQueueFair ==
    SpecQueue /\ WF_vars(\E threw \in BOOLEAN : TimerTick(threw)) /\ WF_vars(AdvanceTime)

\* the events of the pool's sockets and of the reconnect timers
PoolConnectionEvents ==
    \/ \E c \in ConnIds, initThrows \in BOOLEAN : SocketConnect(c, initThrows)
    \/ \E c \in ConnIds : SocketError(c)
    \/ \E c \in ConnIds : SocketClose(c)
    \/ \E c \in ConnIds : ConnectionReconnectTimer(c)
    \/ \E i \in ConnIds, class \in {"short", "long"} : PoolReconnectionTimer(i, class)

\* the establishment timeouts and the timers start() starts
PoolStartEvents ==
    \/ \E c \in ConnIds : ConnectionTimeout(c)
    \/ HealthCheckTick
    \/ KeepAliveTick

\* commands on a pool whose connections come and go
NextPool ==
    \/ Start
    \/ \E cmd \in PoolCommands, writeThrows \in BOOLEAN : Execute(cmd, writeThrows)
    \/ \E c \in ConnIds : HealthCheckTimer(c)
    \/ PoolConnectionEvents

SpecPool == Init /\ [][NextPool]_vars

\* the pool from start() on, without commands
NextPoolStart ==
    \/ Start
    \/ StartSettled
    \/ PoolConnectionEvents
    \/ PoolStartEvents

SpecPoolStart == Init /\ [][NextPoolStart]_vars

\* a pool of one connection whose rebuilds fail
InitRetry == InitRamp /\ InitQueue(1) /\ InitPoolOf(1, MaxRetryFaults) /\ InitBridge

SpecPoolRetry == InitRetry /\ [][NextPoolStart]_vars

\* a pool of one connection
InitSingle == InitRamp /\ InitQueue(1) /\ InitPoolOf(1, MaxFaultsSingle) /\ InitBridge

\* the pool with commands, stop() and another start() after it
NextPoolSingle ==
    \/ NextPool
    \/ StartSettled
    \/ PoolStartEvents
    \/ Stop
    \/ StopComplete

SpecPoolSingle == InitSingle /\ [][NextPoolSingle]_vars

\* a CgateConnection on its own, with an 'error' listener, for the
\* reconnect delays modelled
InitConnection ==
    /\ InitRamp /\ InitQueue(1) /\ InitPool
    /\ \E d \in ReconnectDelaySettings :
          InitBridgeOf(PlainSettings, NewEventConnection(d[1], d[2], TRUE), "none")

NextConnection ==
    \/ Connect
    \/ Disconnect
    \/ EventSocketConnect
    \/ EventSocketError
    \/ EventSocketErrorClose
    \/ EventSocketClose
    \/ EventReconnectTimer

SpecConnection == InitConnection /\ [][NextConnection]_vars

\* the bridge with a command pool of one connection, for the settings modelled
InitBridgeRun ==
    /\ InitRamp /\ InitQueue(1) /\ InitPoolOf(1, MaxFaults)
    /\ \E s \in BridgeSettings :
          InitBridgeOf(s, NewEventConnection(DefaultReconnectInitialDelay,
                                             DefaultReconnectMaxDelay, FALSE), "new")

NextBridge ==
    \/ BridgeStart
    \/ BridgeStop
    \/ MqttConnect
    \/ MqttClose
    \/ MqttError
    \/ MqttLibraryReconnect
    \/ MqttLibraryConnect
    \/ PeriodicGetAllTick
    \/ CommandQueueTick
    \/ AdvanceTime
    \/ EventSocketConnect
    \/ EventSocketError
    \/ EventSocketClose
    \/ EventReconnectTimer
    \/ StartSettled
    \/ PoolConnectionEvents
    \/ PoolStartEvents
    \/ \E c \in ConnIds : HealthCheckTimer(c)
    \/ StopComplete

SpecBridge == InitBridgeRun /\ [][NextBridge]_vars

\* the bridge whose command connection holds: Ready is left and entered
\* again through MQTT, the event connection and stop()
NextReady ==
    \/ BridgeStart
    \/ BridgeStop
    \/ StopComplete
    \/ MqttConnect
    \/ MqttClose
    \/ MqttError
    \/ MqttLibraryReconnect
    \/ MqttLibraryConnect
    \/ StartSettled
    \/ \E c \in ConnIds, initThrows \in BOOLEAN : SocketConnect(c, initThrows)
    \/ EventSocketConnect
    \/ EventSocketError
    \/ EventSocketClose
    \/ EventReconnectTimer
    \/ PeriodicGetAllTick
    \/ CommandQueueTick
    \/ AdvanceTime

SpecReady == InitBridgeRun /\ [][NextReady]_vars

\* the running bridge whose command connection fails and comes back while
\* the command queue is served
NextDispatch ==
    \/ BridgeStart
    \/ MqttConnect
    \/ StartSettled
    \/ PoolConnectionEvents
    \/ PoolStartEvents
    \/ \E c \in ConnIds : HealthCheckTimer(c)
    \/ EventSocketConnect
    \/ PeriodicGetAllTick
    \/ CommandQueueTick
    \/ AdvanceTime

SpecDispatch == InitBridgeRun /\ [][NextDispatch]_vars

\* a pool of one command connection and an event connection, for the
\* credentials modelled
InitHandshake ==
    /\ InitRamp /\ InitQueue(1) /\ InitPoolOf(1, MaxFaultsSingle)
    /\ \E u \in UserNames, pw \in Passwords :
          InitBridgeOf([PlainSettings EXCEPT !.cgateusername = u, !.cgatepassword = pw],
                       NewEventConnection(DefaultReconnectInitialDelay,
                                          DefaultReconnectMaxDelay, TRUE), "none")

NextHandshake ==
    \/ NextPool
    \/ Connect
    \/ Disconnect
    \/ EventSocketConnect

SpecHandshake == InitHandshake /\ [][NextHandshake]_vars

\* MQTT messages on cbus/write/# routed by MqttCommandRouter
NextRouter ==
    \E topic \in Topics, payload \in Payloads : RouteMessage(topic, payload)

SpecRouter == Init /\ [][NextRouter]_vars

\* C-Bus events published by EventPublisher
NextPublisher == \E ev \in Events : PublishEvent(ev)

SpecPublisher == Init /\ [][NextPublisher]_vars

\* TreeXML of network 254 handed to HaDiscovery, under each choice of the
\* discovery ids
InitDiscovery ==
    /\ levelListeners = <<>>
    /\ enqueued = <<>>
    /\ requests = <<>>
    /\ lastEmitRamps = 0
    /\ clock = 0
    /\ command = NoCommand
    /\ cbusEvent = NoEvent
    /\ published = <<>>
    /\ discovery \in { NewHaDiscovery(ids) : ids \in DiscoveryIds }
    /\ InitLines
    /\ InitResponses
    /\ InitQueue(1) /\ InitPool /\ InitBridge

NextDiscovery == \E tree \in Trees : PublishDiscoveryFromTree(DiscoveryNetwork, tree)

SpecDiscovery == InitDiscovery /\ [][NextDiscovery]_vars

\* the pool's connections connect, C-Gate answers on them
NextLines ==
    \/ Start
    \/ \E c \in ConnIds : SocketConnect(c, FALSE)
    \/ \E c \in ConnIds, text \in LineTexts : CgateWritesLine(c, text)
    \/ \E c \in ConnIds : \E n \in 1..Len(inflight[c]) : SocketData(c, n)

SpecLines == Init /\ [][NextLines]_vars

\* a bridge with settings s whose HaDiscovery is h
InitBridgeWith(s, h) ==
    /\ settings = s
    /\ mqttClient = NewMqttManager
    /\ eventConn = NewEventConnection(DefaultReconnectInitialDelay,
                                      DefaultReconnectMaxDelay, FALSE)
    /\ eventFaults = 0
    /\ allConnected = FALSE
    /\ periodicGetAllInterval = NoInterval
    /\ haDiscovery = h
    /\ bridgePhase = "none"
    /\ readyLog = <<>>

\* lines of the command channel, before and after the HaDiscovery exists
InitResponding ==
    /\ InitRamp /\ InitQueue(1) /\ InitPool
    /\ \E h \in {NoDiscovery, NewDiscovery} : InitBridgeWith(PlainSettings, h)

NextResponses == \E line \in ResponseLines : ProcessResponseLine(line)

SpecResponses == InitResponding /\ [][NextResponses]_vars

\* a bridge that entered Ready with HA discovery disabled: the HaDiscovery
\* exists, no tree was requested
InitTreeLines ==
    /\ InitRamp /\ InitQueue(1) /\ InitPool
    /\ InitBridgeWith(PlainSettings, NewDiscovery)

\* 343, 347 and 344 lines in any order, and gettree messages from MQTT
NextTreeLines ==
    \/ \E line \in TreeLines : ProcessTreeLine(line)
    \/ \E topic \in GetTreeTopics : RouteGetTree(topic)

SpecTreeLines == InitTreeLines /\ [][NextTreeLines]_vars

\* a bridge that entered Ready: the HaDiscovery exists and trigger() ran
InitTrees ==
    /\ InitRamp /\ InitQueue(1) /\ InitPool
    /\ \E s \in BridgeSettings : InitBridgeWith(s, TriggerTreeNetwork(NewDiscovery, s))

\* gettree messages from MQTT, and C-Gate's answers to the TREEXML commands

NextTrees ==
    \/ \E topic \in GetTreeTopics : RouteGetTree(topic)
    \/ CgateTreeLine

SpecTrees == InitTrees /\ [][NextTrees]_vars

(***************************************************************************)
(* Claims about relative dimming (SpecRamp).                               *)
(***************************************************************************)
ListenerPending(r) == \E i \in DOMAIN levelListeners : levelListeners[i].req = r

GetPosition(r) ==
    { i \in DOMAIN enqueued : enqueued[i].verb = "GET" /\ enqueued[i].req = r }
RampPositions(r) ==
    { i \in DOMAIN enqueued : enqueued[i].verb = "RAMP" /\ enqueued[i].req = r }

\* C1: for an INCREASE (DECREASE) on address A the GET for A is enqueued
\* first; once a level L for A has been delivered after the request exactly
\* one RAMP with min(255, max(0, L +/- 26)) has been enqueued for it, and
\* none is enqueued before a level for A has been delivered.
C1_RampOnFirstLevelForAddress ==
    \A r \in DOMAIN requests :
        LET q == requests[r] IN
        /\ GetPosition(r) # {}
        /\ \A g \in GetPosition(r), p \in RampPositions(r) : g < p
        /\ q.seen = <<>> => RampPositions(r) = {}
        /\ q.seen # <<>> =>
              /\ Cardinality(RampPositions(r)) = 1
              /\ \A p \in RampPositions(r) :
                    /\ enqueued[p].path = q.address
                    /\ enqueued[p].level = Min(255, Max(0, q.seen[1] + q.step))

\* C2: a pending relative-level operation on A stays registered until a
\* level for A is delivered (or its timeout passes), whatever levels for
\* other addresses arrive in between, and the RAMP for A is emitted when
\* A's level arrives.
C2_OnlyMatchingDeliveryExtinguishes ==
    \A r \in DOMAIN requests :
        LET q == requests[r] IN
        /\ (q.seen = <<>> /\ clock < q.at + RelativeLevelTimeoutMs) => ListenerPending(r)
        /\ (q.seen # <<>> /\ q.ramps = <<>>) => clock >= q.at + RelativeLevelTimeoutMs

\* C3: at most one relative-level registration is active per address, so
\* one level delivery enqueues at most one RAMP.
C3_AtMostOneRegistrationPerAddress ==
    /\ \A i, j \in DOMAIN levelListeners :
          levelListeners[i].address = levelListeners[j].address => i = j
    /\ lastEmitRamps <= 1

\* C4: once the timeout has passed after a request with no level for its
\* address, the registration is gone and no RAMP is ever enqueued for the
\* request, also when a level for the address is delivered later.
C4_NoRampAfterTimeout ==
    \A r \in DOMAIN requests :
        LET q == requests[r] IN
        /\ \A k \in DOMAIN q.ramps : q.ramps[k].at < q.at + RelativeLevelTimeoutMs
        /\ (q.seen = <<>> /\ clock >= q.at + RelativeLevelTimeoutMs) => ~ListenerPending(r)

(***************************************************************************)
(* Claims about the ThrottledQueue (SpecQueue, SpecQueueFair).             *)
(***************************************************************************)
ProcessedIds == ItemIds(processed)

\* C5: with no clear(), the consumer is called on the items in exactly the
\* order of their add() calls, whichever producer added them, and at most
\* once on each.
C5_DispatchInInsertionOrder ==
    nClears = 0 =>
        /\ Len(processed) <= Len(added)
        /\ \A i \in DOMAIN processed : processed[i] = added[i]

C5_Witness ==
    /\ nClears = 0
    /\ Len(processed) = 3
    /\ processed[1].by # processed[2].by
    /\ errorsLogged > 0

\* C6: after any sequence of add(), clear() and timer ticks, two
\* successive consumer calls are at least intervalMs apart.
C6_PacingWithClear == minGap >= intervalMs

\* C7: clear() leaves the queue empty and the timer stopped; an item it
\* removed is never handed to the consumer; an item added after a clear()
\* is handed to the consumer (unless a later clear() removes it).
C7_ClearDropsPending ==
    /\ [](dropped \cap ProcessedIds = {})
    /\ [][nClears' # nClears => (queue' = <<>> /\ ~interval')]_vars
    /\ \A k \in 1..(MaxAdds + 1) :
          (k \in DOMAIN added /\ added[k].epoch > 0)
             ~> (k \in ProcessedIds \/ k \in dropped)

C7_Witness ==
    /\ nClears > 0
    /\ dropped # {}
    /\ queue = <<>>
    /\ \E i \in DOMAIN processed :
          /\ processed[i].epoch > 0
          /\ \E d \in dropped : d < processed[i].id

\* C8 as stated: an item added to a queue that was never used, or whose
\* earlier items have all been handed to the consumer, is handed to the
\* consumer within that add() call.
C8_ImmediateWhenDrained == lastAdd.drained => lastAdd.immediate

\* C8 amended: an item is handed to the consumer within its add() call
\* exactly when the pacing timer is not set at the call (the queue was never
\* used, a timer tick has found it empty, or clear() was called); while the
\* timer is set the item waits for a tick, also when every earlier item has
\* been handed to the consumer.
C8_ImmediateIffTimerIdle == lastAdd.idle <=> lastAdd.immediate

C8_Witness ==
    /\ lastAdd.id > 1
    /\ lastAdd.idle
    /\ lastAdd.immediate
    /\ nClears = 0

(***************************************************************************)
(* Claims about the connection pool (SpecPool).                            *)
(***************************************************************************)
Occurrences(w, c) == Cardinality({ i \in DOMAIN w : w[i] = c })
LastOf(w, n) == SubSeq(w, Len(w) - n + 1, Len(w))

\* C9: whenever the latest 2k execute() calls all succeeded with the healthy
\* set unchanged at k >= 1 connections, each healthy connection was sent
\* exactly two of their commands; with two healthy connections, six such
\* calls sent three commands to each.
C9_RoundRobin ==
    LET k == Len(healthyConnections)
    IN  /\ (k >= 1 /\ Len(window) >= 2 * k) =>
              \A c \in Members(healthyConnections) :
                  Occurrences(LastOf(window, 2 * k), c) = 2
        /\ (k = 2 /\ Len(window) >= 6) =>
              \A c \in Members(healthyConnections) :
                  Occurrences(LastOf(window, 6), c) = 3

\* pool of 3, one connection closed, six execute() calls on the other two
C9_Witness ==
    /\ Len(healthyConnections) = 2
    /\ Len(window) = 6
    /\ \E i \in Slots : connections[i] \in DOMAIN conn
                        /\ connections[i] \notin Members(healthyConnections)
                        /\ conn[connections[i]].socket = "none"
    /\ \A c \in Members(healthyConnections) : Occurrences(window, c) = 3

\* C10: an execute() call whose selected connection's send() returns false
\* throws to the caller, writes the command to no connection, and schedules
\* a health check of the selected connection.
C10_FailedSendNotRetried ==
    [][(lastExec'.selected # 0 /\ ~lastExec'.sendOk) =>
          /\ lastExec'.threw
          /\ lastExec'.writtenTo = {}
          /\ lastExec'.selected \in healthCheckTimers']_vars

\* a failed send while another, writable connection was healthy
C10_Witness ==
    /\ lastExec.selected # 0
    /\ ~lastExec.sendOk
    /\ lastExec.threw
    /\ healthCheckTimers = {lastExec.selected}
    /\ \E c \in Members(healthyConnections) : c # lastExec.selected /\ Writable(c)

(***************************************************************************)
(* Claims about the pool's life cycle (SpecPool, SpecPoolSingle,           *)
(* SpecPoolStart, SpecPoolRetry).                                          *)
(***************************************************************************)
\* the connections the running pool holds or selects from
PoolConnections == SlotConnections \cup Members(healthyConnections)

C12_UnhealthyEmittedOncePerLoss ==
    (poolSize = 1 /\ lossWatch.phase = "back") => lossWatch.emits = 1

\* C13: when start() goes on after waiting for its connections, it starts
\* the timers and emits 'started' with the number of connections that
\* connected before their timeout and the pool size exactly if at least one
\* did; otherwise it fails and emits nothing.
C13_StartedIffSomeConnected ==
    [][(startPhase = "pending" /\ startPhase' # "pending") =>
          LET fulfilled == { c \in Awaited : conn[c].settled = "fulfilled" }
          IN  /\ (startPhase' = "started") <=> (fulfilled # {})
              /\ (startPhase' = "started") =>
                    /\ startedEvent' = [emitted |-> TRUE,
                                        healthy |-> Cardinality(fulfilled),
                                        total |-> poolSize]
                    /\ healthCheckTimer' /\ keepAliveTimer'
              /\ (startPhase' # "started") =>
                    /\ startPhase' = "failed"
                    /\ ~startedEvent'.emitted]_vars

\* start() has succeeded with some, not all, of its connections
C13_Witness ==
    /\ startPhase = "started"
    /\ startedEvent.emitted
    /\ startedEvent.healthy < startedEvent.total
    /\ \E c \in DOMAIN conn : conn[c].lastEvent = "none"

\* C14: once stop() has emitted 'stopped', both timers are cancelled, the
\* healthy set is empty, and no connection of the pool is created,
\* reconnects or connects.
C14_NothingAfterStopped ==
    stoppedEmitted =>
        /\ ~healthCheckTimer /\ ~keepAliveTimer
        /\ healthyConnections = <<>>
        /\ afterStop \cap {"created", "reconnecting", "connected"} = {}

\* C15: once the connection attempts of a slot have failed maxRetries
\* times in a row, no further rebuild of the slot is scheduled.
C15_RetryBudgetPerSlot == ~overBudget


(***************************************************************************)
(* Claims about the bridge's Ready state and shutdown (SpecBridge).        *)
(***************************************************************************)
\* the three sources are healthy
AllHealthy ==
    /\ mqttClient.connected
    /\ PoolHealthy(isStarted, healthyConnections)
    /\ eventConn.connected

\* C16: whenever the manager of a running bridge reports Ready, MQTT is connected, the pool has
\* at least one healthy connection and the event connection is connected.
C16_ReadyImpliesAllHealthy ==
    (allConnected /\ bridgePhase = "running") =>
        /\ mqttClient.connected
        /\ Len(healthyConnections) >= 1
        /\ eventConn.connected

\* C17: as soon as all three sources are healthy again, the manager is in
\* Ready, and every entry into Ready runs the entry actions.
C17_ReadyReenteredOnRecovery ==
    [][/\ (AllHealthy' /\ ~AllHealthy) => allConnected'
       /\ (allConnected' /\ ~allConnected) => Len(readyLog') = Len(readyLog) + 1]_vars

\* C18: on every entry into Ready with HA discovery enabled, a TREEXML
\* command is sent for each network of ha_discovery_networks, or for the
\* network of getallnetapp when that list is empty.
C18_TreexmlOnEveryEntry ==
    settings.haDiscoveryEnabled =>
        \A k \in DOMAIN readyLog :
            /\ readyLog[k].treexml = NetworksToDiscover(settings)
            /\ ~readyLog[k].threw

\* C19: once the bridge's stop() has completed, the periodic timer is
\* cancelled, the command queue is empty with its timer stopped, MQTT, the
\* event connection and every pool connection are disconnected, and no
\* command is written to C-Gate.
C19_QuietAfterStop ==
    bridgePhase = "stopped" =>
        /\ ~periodicGetAllInterval.handle
        /\ queue = <<>> /\ ~interval
        /\ mqttClient.client = "none" /\ ~mqttClient.connected
        /\ ~eventConn.connected /\ eventConn.socket = "none"
        /\ \A c \in DOMAIN conn :
              ~conn[c].connected /\ conn[c].socket \notin {"connecting", "open"}
        /\ "written" \notin afterStop
        /\ lastExec.writtenTo = {}

AttemptsUsedUp ==
    /\ eventConn.nth >= MaxReconnectAttempts
    /\ ~eventConn.reconnectTimeout
    /\ eventConn.socket = "none"
    /\ ~eventConn.closePending

C22_NoReconnectAfterDisconnect ==
    eventConn.disconnected =>
        /\ ~eventConn.reconnectTimeout
        /\ ~eventConn.connected
        /\ eventConn.socket = "none"

(***************************************************************************)
(* Claims about what a connection writes when it connects (SpecHandshake). *)
(***************************************************************************)
\* the open connections of the pool
OpenConnections == { c \in DOMAIN conn : conn[c].connected /\ conn[c].socket = "open" }

\* a user name is configured
UserConfigured == settings.cgateusername.string /\ settings.cgateusername.chars # <<>>

C24_MqttReconnectAnnounced ==
    [][/\ (mqttClient.library = "open" /\ mqttClient'.library = "closed"
            /\ mqttClient.emitted = "connect" /\ mqttClient'.emitted # "error")
           => (mqttClient'.emitted = "close" /\ ~mqttClient'.connected)
       /\ (mqttClient.library = "connecting" /\ mqttClient'.library = "open"
            /\ mqttClient.emitted # "error")
           => /\ mqttClient'.connected
              /\ mqttClient'.announced
              /\ mqttClient'.emitted = "connect"]_vars

\* the payload grammar of a command type: switch takes ON or OFF; ramp takes
\* ON, OFF, INCREASE, DECREASE or <percent>[,<rampTime>], a percent being
\* what parseFloat reads as a number; the other types take any payload
PayloadGrammar(kind, payload) ==
    LET upperPayload == ToUpperCase(payload)
    IN  CASE kind = "switch" -> upperPayload \in {MQTT_STATE_ON, MQTT_STATE_OFF}
          [] kind = "ramp" ->
               \/ upperPayload \in {MQTT_STATE_ON, MQTT_STATE_OFF,
                                    MQTT_COMMAND_INCREASE, MQTT_COMMAND_DECREASE}
               \/ ~ParseFloat(Trim(FirstPart(payload))).nan
          [] OTHER -> TRUE

\* C25: for every topic cbus/write/<n>/<a>/<g>/<kind> and every payload,
\* the parsed command is valid iff kind is one of getall, gettree, switch,
\* ramp, setvalue and the payload satisfies that kind's grammar.
C25_ValidIffKindAndGrammar ==
    command # NoCommand =>
        (command.isValid <=>
            /\ command.commandType \in ValidCommandTypes
            /\ PayloadGrammar(command.commandType, command.payload))

\* a ramp message with payload <percent>[,<rampTime>], integer percent, on a
\* topic with a group
IsDigits(chars) == chars # <<>> /\ \A i \in 1..Len(chars) : IsDigit(chars[i])
IsInteger(chars) ==
    IsDigits(IF chars # <<>> /\ Head(chars) = "-" THEN Tail(chars) ELSE chars)
PercentRamp ==
    /\ command.commandType = "ramp"
    /\ command.group # ""
    /\ IsInteger(Trim(FirstPart(command.payload)))
\* the integer percent of such a payload, and round(p * 255 / 100) for
\* p in 0..100, halves rounded up
PercentOf(payload) == ParseFloat(Trim(FirstPart(payload))).value
RoundedLevel(p) ==
    CHOOSE l \in { (p * CGATE_LEVEL_MAX) \div 100, (p * CGATE_LEVEL_MAX) \div 100 + 1 } :
        /\ 200 * l <= 2 * p * CGATE_LEVEL_MAX + 100
        /\ 2 * p * CGATE_LEVEL_MAX + 100 < 200 * (l + 1)

\* C26: a ramp payload <percent>[,<rampTime>] with integer percent p makes
\* the router enqueue exactly RAMP //<project>/<n>/<a>/<g> <level>[ <rampTime>]
\* with level = round(min(100, max(0, p)) * 255 / 100), which lies in 0..255;
\* 0 gives 0, 50 gives 128 and 100 gives 255.
C26_RampLevelScaled ==
    [][ ((command' # command \/ enqueued' # enqueued) /\ PercentRamp') =>
            LET p == PercentOf(command'.payload)
                second == SecondPart(command'.payload)
            IN  /\ Len(enqueued') = Len(enqueued) + 1
                /\ LET cmd == enqueued'[Len(enqueued')]
                   IN  /\ cmd.verb = "RAMP"
                       /\ <<cmd.network, cmd.application, cmd.group>> =
                            <<command'.network, command'.application, command'.group>>
                       /\ cmd.arg = NumberLevel(RoundedLevel(Max(0, Min(100, p))))
                       /\ cmd.arg.n \in 0..CGATE_LEVEL_MAX
                       /\ p = 0 => cmd.arg.n = 0
                       /\ p = 50 => cmd.arg.n = 128
                       /\ p = 100 => cmd.arg.n = 255
                       /\ cmd.rampTime =
                            IF second.string /\ Trim(second.chars) # <<>>
                            THEN Str(Trim(second.chars)) ELSE NoValue ]_vars

\* a percent that scales to a half (127.5) was routed with a ramp time
C26_Witness ==
    /\ PercentRamp
    /\ PercentOf(command.payload) = 50
    /\ command.rampTime # NoValue
    /\ enqueued # <<>>
    /\ enqueued[Len(enqueued)].verb = "RAMP"

\* round(L * 100 / 255) for a level L in 0..255
RoundedPercent(level) ==
    CHOOSE pct \in 0..100 :
        /\ 2 * CGATE_LEVEL_MAX * pct <= 200 * level + CGATE_LEVEL_MAX
        /\ 200 * level + CGATE_LEVEL_MAX < 2 * CGATE_LEVEL_MAX * (pct + 1)
\* the percentage of an event: from its level, else 100 for on and 0 otherwise
PercentageOf(ev) ==
    IF ev.level \in CGATE_LEVEL_MIN..CGATE_LEVEL_MAX THEN RoundedPercent(ev.level)
    ELSE IF ev.action = "on" THEN 100 ELSE 0
OnOff(on) == IF on THEN MQTT_STATE_ON ELSE MQTT_STATE_OFF

\* C27: for a valid event on n/a/g, publishEvent enqueues cbus/read/n/a/g/state
\* first and, for a non-PIR application only, cbus/read/n/a/g/level second;
\* the level is round(L*100/255) when the event carries a level L, else 100
\* for action on and 0 otherwise; the state is ON iff that percentage is > 0
\* when a level is present, else ON iff the action is on; for PIR it is
\* always from the action.
C27_StateThenLevel ==
    (cbusEvent # NoEvent /\ cbusEvent.isValid) =>
        LET isPir == cbusEvent.application = PirApp
            address(m) == <<m.network, m.application, m.group>>
            here == <<cbusEvent.network, cbusEvent.application, cbusEvent.group>>
        IN  /\ Len(published) = IF isPir THEN 1 ELSE 2
            /\ address(published[1]) = here
            /\ published[1].suffix = "state"
            /\ published[1].payload =
                 IF isPir \/ cbusEvent.level = NullLevel
                 THEN OnOff(cbusEvent.action = "on")
                 ELSE OnOff(PercentageOf(cbusEvent) > 0)
            /\ ~isPir =>
                 /\ address(published[2]) = here
                 /\ published[2].suffix = "level"
                 /\ published[2].payload = NumberToString(PercentageOf(cbusEvent))
                 \* and so for each level the event could have carried
                 /\ \A lv \in CGATE_LEVEL_MIN..CGATE_LEVEL_MAX :
                      LevelPercent([cbusEvent EXCEPT !.level = lv]) = RoundedPercent(lv)

\* a lighting event "ramp" to level 1 was published: 0 percent, state OFF
C27_Witness ==
    /\ cbusEvent.isValid
    /\ cbusEvent.application = LightingApp
    /\ cbusEvent.action = "ramp"
    /\ cbusEvent.level = 1
    /\ Len(published) = 2
    /\ published[1].payload = MQTT_STATE_OFF

\* the Group elements of the tree processed last, in document order, each
\* with the address of its Application
RECURSIVE GroupsOfApplications(_)
GroupsOfApplications(apps) ==
    IF apps = <<>> THEN <<>>
    ELSE [i \in 1..Len(Head(apps).Group) |->
            [app |-> Head(apps).ApplicationAddress,
             group |-> Head(apps).Group[i].GroupAddress]]
         \o GroupsOfApplications(Tail(apps))
RECURSIVE GroupsOfUnits(_)
GroupsOfUnits(units) ==
    IF units = <<>> THEN <<>>
    ELSE GroupsOfApplications(Head(units).Application) \o GroupsOfUnits(Tail(units))

\* the component of an application: light for the lighting application 56,
\* which is fixed, else by priority: cover > switch > relay > PIR
PriorityComponent(ids, app) ==
    CASE app = DEFAULT_CBUS_APP_LIGHTING -> "light"
      [] ids.cover = app -> "cover"
      [] ids.switch = app -> "switch"
      [] ids.relay = app -> "switch"
      [] ids.pir = app -> "binary_sensor"
\* the application's id equals a configured discovery id
ConfiguredApp(ids, app) ==
    \E id \in {ids.cover, ids.switch, ids.relay, ids.pir} : Truthy(id) /\ id = app
\* the Group elements that are to be discovered: a GroupAddress that is not
\* empty, under the lighting application or an application with a
\* configured id
Discoverable(ids, gs) ==
    SelectSeq(gs, LAMBDA g : /\ Truthy(g.group)
                             /\ \/ g.app = DEFAULT_CBUS_APP_LIGHTING
                                \/ ConfiguredApp(ids, g.app))

\* C28: every group with a non-empty GroupAddress under an application whose
\* id equals a configured discovery id gets exactly one discovery config, its
\* component chosen by priority cover > switch > relay > PIR; a group with an
\* empty GroupAddress gets none.
C28_OneConfigPerGroupByPriority ==
    (discovery.tree # NoValue /\ discovery.tree.NetworkNumber = discovery.network) =>
        LET ids == discovery.settings
            wanted == Discoverable(ids, GroupsOfUnits(discovery.tree.Unit))
            configs == discovery.published
        IN  /\ Len(configs) = Len(wanted)
            /\ \A i \in 1..Len(wanted) :
                 /\ configs[i].application = wanted[i].app
                 /\ configs[i].group = wanted[i].group
                 /\ configs[i].component = PriorityComponent(ids, wanted[i].app)
            /\ \A i \in 1..Len(configs) : Truthy(configs[i].group)

\* the cover id is also the switch, relay and PIR id, and a tree with a group
\* with and a group without a GroupAddress under that application was processed
C28_Witness ==
    /\ discovery.tree # NoValue
    /\ discovery.tree.NetworkNumber = discovery.network
    /\ discovery.settings.cover = CoverApp
    /\ discovery.settings.switch = CoverApp
    /\ discovery.settings.relay = CoverApp
    /\ discovery.settings.pir = CoverApp
    /\ \E u \in 1..Len(discovery.tree.Unit) :
         LET app == discovery.tree.Unit[u].Application[1]
         IN  /\ app.ApplicationAddress = CoverApp
             /\ Len(app.Group) = 2
             /\ \E g \in 1..2 : ~Truthy(app.Group[g].GroupAddress)
    /\ \E i \in 1..Len(discovery.published) :
         discovery.published[i].component = "cover"

\* a connection object is live: connected, connecting, or waiting for its
\* own reconnect timer
Live(c) ==
    \/ conn[c].connected
    \/ conn[c].socket = "connecting"
    \/ conn[c].reconnectTimeout

\* C29: for each pool slot index at most one connection object is live at
\* any time; hence the healthy set holds only connections stored in the
\* pool's slots, and never more than poolSize of them.
C29_OneLiveConnectionPerSlot ==
    /\ \A i \in Slots :
         Cardinality({ c \in DOMAIN conn : conn[c].poolIndex = i /\ Live(c) }) <= 1
    /\ Members(healthyConnections) \subseteq SlotConnections
    /\ Cardinality(Members(healthyConnections)) <= poolSize

\* C30: every line passed to the command-response processor is exactly one
\* complete line that C-Gate wrote to a single pool connection (trimmed):
\* bytes of different connections are never joined into one line.
C30_LinesOfOneConnection ==
    \A i \in 1..Len(commandLines) :
        LET l == commandLines[i]
        IN  \E id \in 1..Len(cgateLines) :
              /\ \A j \in 1..Len(l) : l[j].line = id
              /\ [j \in 1..Len(l) |-> l[j].ch] = Trim(cgateLines[id].text)

(***************************************************************************)
(* C31: each completed tree transfer goes with its network.                *)
(***************************************************************************)
\* C31: when TREEXML was requested for several networks before the answers
\* arrive, the k-th completed tree transfer (343 ... 344) is handed to
\* discovery, together with the network of the k-th TREEXML request.
C31_TreeHandedWithItsNetwork ==
    \A k \in 1..Len(treeLog) :
        /\ treeLog[k].handed
        /\ treeLog[k].network = TreeRequests[k].network

(***************************************************************************)
(* C33: the dispatch of a command-channel line.                            *)
(***************************************************************************)
\* the line is <code>-<rest> or <code> <rest> with a code of three digits,
\* the first of them 1..6, and a rest that is not empty
CodedLine(line) ==
    /\ Len(line) > 4
    /\ ResponseCodePattern(SubSeq(line, 1, 3))
    /\ line[4] \in {"-", " "}
    /\ Trim(SubSeq(line, 5, Len(line))) # <<>>
\* the line does not begin with such a code and a hyphen, a blank or its end
Uncoded(line) ==
    ~(/\ Len(line) >= 3
      /\ ResponseCodePattern(SubSeq(line, 1, 3))
      /\ (Len(line) = 3 \/ line[4] \in {"-", " "}))

\* C33: a line <code>-<rest> or <code> <rest> is dispatched on its code (300
\* status event, 343/347/344 tree handling, 4xx/5xx error log, others info
\* log) with <rest> (trimmed) as payload, whatever characters <rest> holds;
\* a line without such a code is skipped, with no publication and no change
\* of state.
C33_DispatchOnCode ==
    [][ response'.n # response.n =>
          LET line == response'.line IN
          /\ CodedLine(line) =>
                /\ response'.handler = HandlerOf(SubSeq(line, 1, 3))
                /\ response'.statusData = Trim(SubSeq(line, 5, Len(line)))
          /\ Uncoded(line) =>
                /\ response'.handler = "skipped"
                /\ UNCHANGED <<haDiscovery, cbusEvent, published, enqueued,
                               levelListeners, treeLines, treeLog>> ]_vars

(***************************************************************************)
(* C34: the tree buffer.                                                   *)
(***************************************************************************)
\* the payloads of the 347 lines among ls, each followed by a newline
RECURSIVE TreeDataOf(_)
TreeDataOf(ls) ==
    IF ls = <<>> THEN <<>>
    ELSE (IF Head(ls).handler = "treeData"
          THEN Head(ls).statusData \o <<NEWLINE>> ELSE <<>>) \o TreeDataOf(Tail(ls))
\* the index of the last of the first n tree lines handled by one of hs, or 0
RECURSIVE LastHandled(_, _)
LastHandled(n, hs) ==
    IF n = 0 THEN 0
    ELSE IF treeLines[n].handler \in hs THEN n
    ELSE LastHandled(n - 1, hs)
\* after a 344 the buffer is empty and the network unset
ClearedAfterTreeEnd ==
    \A k \in 1..Len(treeLog) :
        /\ treeLog[k].left.treeBuffer = <<>>
        /\ treeLog[k].left.treeNetwork = NullNetwork

\* C34 as stated: the buffer a 344 hands over is the payloads, each with a
\* newline, of the 347 lines since the most recent 343; after every 344 the
\* buffer is empty and the network unset.
C34_BufferSinceTreeStart ==
    /\ \A k \in 1..Len(treeLog) :
          (treeLog[k].handed /\ LastHandled(treeLog[k].at, {"treeStart"}) > 0) =>
          treeLog[k].buffer =
             TreeDataOf(SubSeq(treeLines,
                               LastHandled(treeLog[k].at, {"treeStart"}) + 1,
                               treeLog[k].at))
    /\ ClearedAfterTreeEnd

\* C34 amended: the buffer a 344 hands over is the payloads, each with a
\* newline, of the 347 lines since the most recent 343 or 344; after every
\* 344 the buffer is empty and the network unset.
C34_BufferSinceTreeStartOrEnd ==
    /\ \A k \in 1..Len(treeLog) :
          treeLog[k].buffer =
             TreeDataOf(SubSeq(treeLines,
                               LastHandled(treeLog[k].at, {"treeStart", "treeEnd"}) + 1,
                               treeLog[k].at))
    /\ ClearedAfterTreeEnd

\* a 343, two 347 lines and a 344 were handled, then a 347 and a 344 with
\* no 343 before them
C34_Witness ==
    /\ Len(treeLog) = 1
    /\ treeLog[1].buffer = <<"a", NEWLINE, "b", NEWLINE>>
    /\ treeLog[1].handed
    /\ treeLines[1].handler = "treeStart"
    /\ haDiscovery.treeBuffer = <<>>

(***************************************************************************)
(* C32: the delay of a slot's rebuilds.                                    *)
(***************************************************************************)
\* C32: a close while the pool is not shutting down schedules the slot's
\* r-th rebuild in a row since its last successful connect after
\* min(1000 * 2^(r-1), 30000) ms.
C32_RebuildBackoffPerSlot ==
    lastRebuild.nth > 0 =>
        lastRebuild.delay =
            Min(PoolReconnectionBaseMs * 2 ^ (lastRebuild.nth - 1), PoolReconnectionMaxMs)

(***************************************************************************)
(* C35: no exception leaves the component that receives a failure.         *)
(***************************************************************************)
\* C35: no socket error on the event connection and no MQTT error other
\* than an authentication error lets an exception leave the component that
\* receives it.
C35_NoExceptionEscapes ==
    /\ ~eventConn.escaped
    /\ ~mqttClient.escaped

(***************************************************************************)
(* C36: the command queue across an outage of the command connections.     *)
(***************************************************************************)
\* the latest step wrote a command to C-Gate that the queue was given
\* before the command connection was lost, after the connection came back
WrittenAcrossOutage ==
    /\ lastExec.sendOk
    /\ lossWatch.phase = "back"
    /\ processed # <<>>
    /\ \E k \in 1..lossWatch.added : added[k] = processed[Len(processed)]

\* C36: when every command connection is lost the command queue is cleared:
\* no command enqueued before the outage is written to C-Gate after
\* connectivity returns.
C36_NoWriteAcrossOutage == ~WrittenAcrossOutage

(***************************************************************************)
(* C37: the periodic get-all timer over entries into Ready.                *)
(***************************************************************************)
\* C37: after any sequence of entries into Ready and exits, at most one
\* periodic get-all timer is live, and it is the one the bridge holds.
C37_OnePeriodicTimer ==
    /\ periodicGetAllInterval.timers <= 1
    /\ periodicGetAllInterval.handle <=> periodicGetAllInterval.timers = 1

\* Ready was entered twice with the periodic refresh configured
C37_Witness ==
    /\ Len(readyLog) = 2
    /\ readyLog[1].periodic /\ readyLog[2].periodic
    /\ periodicGetAllInterval.timers = 1

(***************************************************************************)
(* C38: the pacing timer and the delivery of queued items.                 *)
(***************************************************************************)
\* C38: the pacing timer is set whenever the queue holds an item, so when
\* timers fire every item added is handed to the consumer unless clear()
\* removes it, also when the consumer failed on earlier items.
C38_TimerWhileQueued ==
    /\ [](queue # <<>> => interval)
    /\ \A k \in 1..(MaxAdds + 1) :
          (k \in DOMAIN added) ~> (k \in ProcessedIds \/ k \in dropped)

\* the consumer failed on two items and the third was still handed to it by
\* a timer tick
C38_Witness ==
    /\ nClears = 0
    /\ errorsLogged = 2
    /\ Len(processed) = 3
    /\ ~lastAdd.immediate
    /\ queue = <<>>
    /\ interval

(***************************************************************************)
(* C39: what becomes of a command taken from the command queue.            *)
(***************************************************************************)
\* the step hands an item of the command queue to _sendCgateCommand
Dispatches == Len(processed') = Len(processed) + 1
Dispatched == processed'[Len(processed')]
\* the connections the step writes a command to; a step in which only time
\* passes keeps lastExec
WrittenTo == IF lastExec' # lastExec \/ Dispatches THEN lastExec'.writtenTo ELSE {}

\* C39: a command is written only in the step that takes it from the command
\* queue, to one connection, and it is taken once: it is not in the queue
\* afterwards and was not taken before.  When the pool has no healthy
\* connection at that step the command is written to none.
C39_WrittenAtMostOnce ==
    [][/\ WrittenTo # {} =>
             /\ Dispatches
             /\ lastExec'.cmd = Dispatched.by
             /\ Cardinality(WrittenTo) = 1
       /\ Dispatches =>
             /\ Dispatched.id \notin ItemIds(processed)
             /\ Dispatched.id \notin ItemIds(queue')
             /\ healthyConnections = <<>> =>
                   (lastExec'.threw /\ WrittenTo = {})]_vars

\* a command was taken from the queue by a timer tick while the pool had no
\* healthy connection: it is dropped, and the pool is healthy again
C39_Witness ==
    /\ Len(processed) = 2
    /\ queue = <<>>
    /\ lastExec.cmd = "getall"
    /\ lastExec.selected = 0
    /\ lastExec.threw
    /\ lossWatch.phase = "lost"
    /\ lossWatch.added = 2

(***************************************************************************)
(* C40: the pool after a start() that failed.                              *)
(***************************************************************************)
\* C40: when start() has failed because no connection was established, the
\* pool is not started and no monitoring timer runs, so a later start()
\* connects again.
C40_FailedStartLeavesNotStarted ==
    startPhase = "failed" => (~isStarted /\ ~healthCheckTimer /\ ~keepAliveTimer)

====
